---- MODULE Spec2Model ----
(***************************************************************************)
(* A model of the mcp2rest gateway's server (package server, pkg/mcp):     *)
(* the protocol engine (handleMCPRequest), the stdio transport (reader,    *)
(* worker pool, processRequest, Stop/StopWithContext/Cancel) and the SSE   *)
(* transport (handleSSEConnection, handleMCPMessages, pushMessageToSession,*)
(* removeSSEConnection).                                                   *)
(*                                                                         *)
(* Three state machines share the module; each specification moves its own *)
(* variables and leaves the others unchanged:                              *)
(*   Spec       the protocol engine applied to one envelope at a time      *)
(*   SpecStdio  the stdio transport        (SpecStdioFair: with fairness)  *)
(*   SpecSSE    the SSE transport          (SpecSSEFair: with fairness)    *)
(*   SpecServe  either transport, as Server.Start selects it               *)
(*   SpecInvoke the tool invoker (RequestHandler.HandleRequest)            *)
(*   SpecIndex  the tool list (RequestHandler.GetAvailableTools)           *)
(***************************************************************************)
EXTENDS Bags, FiniteSets, Integers, Sequences, TLC

VARIABLES
    \* ---- protocol engine (Spec) ----
    request,     \* the envelope handed to handleMCPRequest
    response,    \* what handleMCPRequest returned for it
    engineCalls, \* how many envelopes the engine has handled
    initSeen,    \* history: the engine has answered an initialize with a result
    \* ---- stdio transport (SpecStdio) ----
    ctxDone,     \* s.ctx is cancelled
    doneClosed,  \* s.done is closed
    chanClosed,  \* requestChan is closed
    requestChan, \* the buffered channel of tasks
    reader,      \* the reader goroutine: [pc, task]
    workers,     \* the worker goroutines, a bag of [pc, task, resp]
    lateEngines, \* tasks whose handleMCPRequest still runs after a timeout
    serve,       \* startStdioServer's own goroutine
    stoppers,    \* goroutines inside Stop / StopWithContext (a bag of pcs)
    stdout,      \* what has been written to os.Stdout, one entry per Write
    stdoutOpen,  \* writes to os.Stdout succeed (the client still reads)
    readLog,     \* history: for each line read, its envelope and its fate
    eofRead,     \* history: the reader has read end-of-input
    proc,        \* the process: "running", "exited" (os.Exit) or "panicked"
    stdinLen,    \* the number of lines the client sends in the run
    \* ---- SSE transport (SpecSSE) ----
    sseConnections, \* s.sseConnections: clientID -> connection
    sessions,       \* s.sessions: sessionID -> session
    conns,          \* GET /sse handler goroutines
    posts,          \* POST /messages/ handler goroutines
    streams,        \* the events written to each connection's stream
    sseCtxDone,     \* s.ctx is cancelled (SSE server)
    sseExit,        \* the goroutine started by handleExit (SSE server)
    \* ---- tool invoker (SpecInvoke, SpecIndex) ----
    openAPISpec,    \* h.openAPISpec: servers, paths, the operation's metadata
    defaultHeaders, \* h.config.Global.DefaultHeaders: the names it sets
    environ,        \* the environment variables that are set and not empty
    toolCall,       \* params *mcp.ToolCallParams: name and supplied parameters
    outbound,       \* the requests handed to httpClient.Do, in order
    invoked,        \* what HandleRequest returned, with the steps it took
    tools           \* what GetAvailableTools returned

engineVars == <<request, response, engineCalls, initSeen>>
stdioVars  == <<ctxDone, doneClosed, chanClosed, requestChan, reader, workers,
                lateEngines, serve, stoppers, stdout, stdoutOpen, readLog,
                eofRead, proc, stdinLen>>
sseVars    == <<sseConnections, sessions, conns, posts, streams, sseCtxDone,
                sseExit>>
invokeVars == <<openAPISpec, defaultHeaders, environ, toolCall, outbound,
                invoked, tools>>
vars       == <<engineVars, stdioVars, sseVars, invokeVars>>

(***************************************************************************)
(* JSON values of the id field, and the envelopes.                         *)
(***************************************************************************)

\* An id as it stands in the request text ("t" is its JSON type, "v" its
\* literal text without quotes); "absent" is a request without an id member.
IdAbsent == [t |-> "absent", v |-> ""]
IdNull   == [t |-> "null", v |-> "null"]
IdNum(s) == [t |-> "num", v |-> s]
IdStr(s) == [t |-> "str", v |-> s]
IdBool   == [t |-> "bool", v |-> "true"]

Ids == {IdAbsent, IdNull, IdNum("1"), IdNum("2"), IdStr("1"), IdStr("a"), IdBool}

Methods == {"initialize", "notifications/initialized", "notifications/cancelled",
            "tools/list", "tools/call", "toolCall", "exit", "unknown/method"}

\* params: absent (no member), bad (valid JSON of the wrong type), ok.
ParamKinds == {"absent", "bad", "ok"}

\* What the tool invoker (handler.HandleRequest) returns for a tools/call:
\* a success result, an error result (Type "error"), or a Go error.
ToolOutcomes == {"success", "errorResult", "err"}

\* An envelope: "json" is false for a body that does not unmarshal into
\* MCPRequest; "tool" is the outcome a tools/call of it meets.
Envelopes ==
    [json : BOOLEAN, jsonrpc : {"2.0", "1.0"}, id : Ids, method : Methods,
     params : ParamKinds, tool : ToolOutcomes]

\* MCPRequest.GetIDString
GetIDString(id) ==
    IF id.t = "absent" THEN ""            \* r.ID == nil
    ELSE IF id.t = "str" THEN id.v        \* unmarshals as a string
    ELSE IF id.t = "null" THEN ""         \* null into a string: no error, ""
    ELSE IF id.t = "num" THEN id.v        \* json.Number.String()
    ELSE id.v                             \* string(r.ID)

SetID(s) == IdStr(s)

NoResponse == [kind |-> "none", id |-> IdAbsent, code |-> 0, body |-> ""]

\* mcp.NewSuccessResponse(id, result)
NewSuccessResponse(s, body) ==
    [kind |-> "result", id |-> SetID(s), code |-> 0, body |-> body]

\* mcp.NewErrorResponse(id, code, message)
NewErrorResponse(s, code) ==
    [kind |-> "error", id |-> SetID(s), code |-> code, body |-> ""]

ParseError     == 0 - 32700
InvalidVersion == 0 - 32600
MethodNotFound == 0 - 32601
InvalidParams  == 0 - 32602
InternalError  == 0 - 32603
RequestTimeout == 0 - 32001

\* Server.handleInitialize
handleInitialize(req) ==
    IF req.params = "ok"
    THEN NewSuccessResponse(GetIDString(req.id), "initResult")
    ELSE NewErrorResponse(GetIDString(req.id), InvalidParams)

\* Server.handleInitialized and Server.handleCancelled: return nil, nil
handleInitialized(req) == NoResponse

\* Server.handleToolsList
handleToolsList(req) == NewSuccessResponse(GetIDString(req.id), "tools")

\* Server.handleExit (the response; the shutdown it schedules is ExitScheduled)
handleExit(req) == NewSuccessResponse(GetIDString(req.id), "null")

\* Server.handleToolCall
handleToolCall(req) ==
    IF req.params # "ok"
    THEN NewErrorResponse(GetIDString(req.id), InvalidParams)
    ELSE IF req.tool = "err"
    THEN NewErrorResponse(GetIDString(req.id), InternalError)
    ELSE IF req.tool = "errorResult"
    THEN NewSuccessResponse(GetIDString(req.id), "isError:true")
    ELSE NewSuccessResponse(GetIDString(req.id), "isError:false")

\* a handleMCPRequest that dispatches on the method without looking at the
\* version
handleMCPRequestMutant(req) ==
    IF ~req.json THEN NewErrorResponse("", ParseError)
    ELSE CASE req.method = "initialize" -> handleInitialize(req)
           [] req.method \in {"notifications/initialized",
                              "notifications/cancelled"} -> handleInitialized(req)
           [] req.method = "tools/list" -> handleToolsList(req)
           [] req.method \in {"toolCall", "tools/call"} -> handleToolCall(req)
           [] req.method = "exit" -> handleExit(req)
           [] OTHER -> NewErrorResponse(GetIDString(req.id), MethodNotFound)

\* Server.handleMCPRequest: the response bytes (NoResponse for nil)
handleMCPRequest(req) ==
    IF ~req.json THEN NewErrorResponse("", ParseError)
    ELSE IF req.jsonrpc # "2.0"
    THEN NewErrorResponse(GetIDString(req.id), InvalidVersion)
    ELSE CASE req.method = "initialize" -> handleInitialize(req)
           [] req.method \in {"notifications/initialized",
                              "notifications/cancelled"} -> handleInitialized(req)
           [] req.method = "tools/list" -> handleToolsList(req)
           [] req.method \in {"toolCall", "tools/call"} -> handleToolCall(req)
           [] req.method = "exit" -> handleExit(req)
           [] OTHER -> NewErrorResponse(GetIDString(req.id), MethodNotFound)

\* handleMCPRequest reaches handleExit, which starts the goroutine that
\* sleeps 50ms, calls Stop and then os.Exit(0).
ExitScheduled(req) == req.json /\ req.jsonrpc = "2.0" /\ req.method = "exit"

\* handleMCPRequest reaches handler.HandleRequest (the tool invoker).
ToolInvoked(req) ==
    /\ req.json /\ req.jsonrpc = "2.0"
    /\ req.method \in {"toolCall", "tools/call"}
    /\ req.params = "ok"

(***************************************************************************)
(* The protocol engine on its own: one envelope at a time.                 *)
(***************************************************************************)

StdioIdle ==
    /\ ctxDone = FALSE /\ doneClosed = FALSE /\ chanClosed = FALSE
    /\ requestChan = <<>> /\ reader = "none" /\ workers = EmptyBag
    /\ lateEngines = {} /\ serve = "none" /\ stoppers = EmptyBag
    /\ stdout = <<>> /\ stdoutOpen = TRUE /\ readLog = <<>> /\ eofRead = FALSE
    /\ proc = "none" /\ stdinLen = 0

SSEIdle ==
    /\ sseConnections = {} /\ sessions = {} /\ conns = {} /\ posts = {}
    /\ streams = {} /\ sseCtxDone = FALSE /\ sseExit = "none"

InvokeIdle ==
    /\ openAPISpec = {} /\ defaultHeaders = {} /\ environ = {}
    /\ toolCall = {} /\ outbound = <<>> /\ invoked = {} /\ tools = <<>>

Init ==
    /\ request \in Envelopes
    /\ response = NoResponse
    /\ engineCalls = 0
    /\ initSeen = FALSE
    /\ StdioIdle /\ SSEIdle /\ InvokeIdle

\* the engine answers req's initialize with a result
Initializes(req) ==
    /\ req.json /\ req.jsonrpc = "2.0"
    /\ req.method = "initialize" /\ req.params = "ok"

\* an engine that refuses tools/list and tools/call until it has answered an
\* initialize
HandleMCPRequestMutant ==
    /\ engineCalls = 0
    /\ response' = IF /\ ~initSeen
                      /\ request.json /\ request.jsonrpc = "2.0"
                      /\ request.method \in {"tools/list", "toolCall", "tools/call"}
                   THEN NewErrorResponse(GetIDString(request.id), InvalidVersion)
                   ELSE handleMCPRequest(request)
    /\ engineCalls' = 1
    /\ initSeen' = (initSeen \/ Initializes(request))
    /\ UNCHANGED <<request, stdioVars, sseVars, invokeVars>>

\* A caller hands the received envelope to handleMCPRequest.
HandleMCPRequest ==
    /\ engineCalls = 0
    /\ response' = handleMCPRequest(request)
    /\ engineCalls' = 1
    /\ initSeen' = (initSeen \/ Initializes(request))
    /\ UNCHANGED <<request, stdioVars, sseVars, invokeVars>>

\* The next envelope arrives.
Receive ==
    /\ engineCalls = 1
    /\ \E env \in Envelopes : request' = env
    /\ response' = NoResponse
    /\ engineCalls' = 0
    /\ UNCHANGED <<initSeen, stdioVars, sseVars, invokeVars>>

Next == HandleMCPRequest \/ Receive

Spec == Init /\ [][Next]_vars

\* C1: every response carries the request's id as the same JSON value of the
\* same JSON type (a number stays a number, a string a string).
C1_IdEchoedWithItsType ==
    (/\ engineCalls = 1
     /\ request.json
     /\ request.id.t \in {"num", "str"}
     /\ response # NoResponse) => response.id = request.id

\* C2: an envelope whose id is absent or null gets no response, whatever its
\* method.
C2_NotificationGetsNoResponse ==
    (engineCalls = 1 /\ request.json /\ request.id \in {IdAbsent, IdNull})
        => response = NoResponse

(***************************************************************************)
(* The stdio transport: startStdioServer, its reader goroutine, the worker *)
(* pool, processRequest, and the callers of Cancel, Stop, StopWithContext. *)
(***************************************************************************)

\* The lines a run may read (the client may send any number; the model reads
\* at most stdinLen of them: MaxReqs where the lines are of every kind, MaxLoad
\* where a client sends tool calls one after the other).
MaxReqs == 2
MaxLoad == 6

\* The capacity of requestChan. The source's channel holds 100 tasks; the
\* model's channel is that channel scaled down.
QueueCap == 1

\* workerCount of startStdioServer
workerCount == 4

\* Calls of Stop / StopWithContext by the embedding program that may be in
\* progress at the same time (the goroutines of handleExit come on top).
MaxStoppers == 1

NoEnvelope ==
    [json |-> FALSE, jsonrpc |-> "", id |-> IdAbsent, method |-> "",
     params |-> "absent", tool |-> "success"]

Req(id, method) ==
    [json |-> TRUE, jsonrpc |-> "2.0", id |-> id, method |-> method,
     params |-> "ok", tool |-> "success"]

BadJson == [NoEnvelope EXCEPT !.method = "not json"]

\* The n-th line, when it is not blank: a request whose id is the number n or
\* the string "n" (so the ids of a run are pairwise distinct), a
\* notification, or a line that is not JSON.
StdioLines(n) ==
    {Req(IdNum(ToString(n)), "tools/call"), Req(IdStr(ToString(n)), "tools/list"),
     Req(IdStr(ToString(n)), "exit"),
     Req(IdNull, "notifications/initialized"), BadJson}

\* A goroutine running processRequest (a worker, or the reader inline).
Runner(pc, n, env, resp) == [pc |-> pc, n |-> n, env |-> env, resp |-> resp]
IdleWorker == Runner("idle", 0, NoEnvelope, NoResponse)
ExitedWorker == Runner("exited", 0, NoEnvelope, NoResponse)

BagReplace(b, old, new) == (b (-) SetToBag({old})) (+) SetToBag({new})

Chunk(n, part, resp) == [n |-> n, part |-> part, resp |-> resp]

InitStdio ==
    /\ ctxDone = FALSE /\ doneClosed = FALSE /\ chanClosed = FALSE
    /\ requestChan = <<>>
    /\ reader = Runner("check", 0, NoEnvelope, NoResponse)
    /\ workers = [w \in {IdleWorker} |-> workerCount]
    /\ lateEngines = {}
    /\ serve = "waitCtx"
    /\ stoppers = EmptyBag
    /\ stdout = <<>> /\ stdoutOpen = TRUE
    /\ readLog = <<>> /\ eofRead = FALSE
    /\ proc = "running"
    /\ stdinLen = MaxReqs
    /\ request = NoEnvelope /\ response = NoResponse /\ engineCalls = 0
    /\ initSeen = FALSE
    /\ SSEIdle /\ InvokeIdle

StdioFrame == UNCHANGED <<engineVars, sseVars, invokeVars, stdinLen>>

\* ---- processRequest, from the goroutine r running it ----

\* select: case res := <-resultChan. The goroutine that processRequest
\* started has run handleMCPRequest and sent its result (resultChan is
\* buffered, the send never blocks); handleExit has started the goroutine that
\* sleeps, calls Stop and exits the process. ret is the pc of r's caller after
\* processRequest returns; r2 is the goroutine's state after the step.
TakeResult(r, ret, r2) ==
    /\ r.pc = "wait"
    /\ r2 = (IF handleMCPRequest(r.env) = NoResponse
           THEN Runner(ret, 0, NoEnvelope, NoResponse)
           ELSE Runner("write1", r.n, r.env, handleMCPRequest(r.env)))
    /\ stoppers' = IF ExitScheduled(r.env)
                   THEN stoppers (+) SetToBag({"exitSleep"})
                   ELSE stoppers
    /\ UNCHANGED <<stdout, ctxDone, lateEngines>>

\* a timeout branch that also cancels the server's context
TimeOutMutant(r, ret, r2) ==
    /\ r.pc = "wait"
    /\ ToolInvoked(r.env)
    /\ lateEngines' = lateEngines \cup {r.n}
    /\ r2 = Runner("tmo1", r.n, r.env, NewErrorResponse("", RequestTimeout))
    /\ ctxDone' = TRUE
    /\ UNCHANGED <<stdout, stoppers>>

\* select: case <-ctx.Done(), after Global.Timeout: the outbound call of the
\* tool invoker is what can take that long (the HTTP client has the same
\* timeout). The handleMCPRequest goroutine is left running.
TimeOut(r, ret, r2) ==
    /\ r.pc = "wait"
    /\ ToolInvoked(r.env)
    /\ lateEngines' = lateEngines \cup {r.n}
    /\ r2 = Runner("tmo1", r.n, r.env, NewErrorResponse("", RequestTimeout))
    /\ UNCHANGED <<stdout, ctxDone, stoppers>>

\* os.Stdout.Write(response) of the timeout branch (its error is not looked at)
WriteTimeoutBody(r, ret, r2) ==
    /\ r.pc = "tmo1"
    /\ stdout' = IF stdoutOpen THEN Append(stdout, Chunk(r.n, "body", r.resp))
                 ELSE stdout
    /\ r2 = Runner("tmo2", r.n, r.env, r.resp)
    /\ UNCHANGED <<ctxDone, stoppers, lateEngines>>

\* os.Stdout.Write("\n") of the timeout branch
WriteTimeoutNewline(r, ret, r2) ==
    /\ r.pc = "tmo2"
    /\ stdout' = IF stdoutOpen THEN Append(stdout, Chunk(r.n, "nl", NoResponse))
                 ELSE stdout
    /\ r2 = Runner(ret, 0, NoEnvelope, NoResponse)
    /\ UNCHANGED <<ctxDone, stoppers, lateEngines>>

\* os.Stdout.Write(res.response); on an error: s.cancel() and return
WriteBody(r, ret, r2) ==
    /\ r.pc = "write1"
    /\ IF stdoutOpen
       THEN /\ stdout' = Append(stdout, Chunk(r.n, "body", r.resp))
            /\ r2 = Runner("write2", r.n, r.env, r.resp)
            /\ UNCHANGED ctxDone
       ELSE /\ ctxDone' = TRUE
            /\ r2 = Runner(ret, 0, NoEnvelope, NoResponse)
            /\ UNCHANGED stdout
    /\ UNCHANGED <<stoppers, lateEngines>>

\* os.Stdout.Write("\n"); on an error: s.cancel() and return
WriteNewline(r, ret, r2) ==
    /\ r.pc = "write2"
    /\ IF stdoutOpen
       THEN /\ stdout' = Append(stdout, Chunk(r.n, "nl", NoResponse))
            /\ UNCHANGED ctxDone
       ELSE /\ ctxDone' = TRUE
            /\ UNCHANGED stdout
    /\ r2 = Runner(ret, 0, NoEnvelope, NoResponse)
    /\ UNCHANGED <<stoppers, lateEngines>>

\* the states a goroutine in state r may be in after a step of processRequest
RunnerStates(r, ret) ==
    {Runner(ret, 0, NoEnvelope, NoResponse),
     Runner("write1", r.n, r.env, handleMCPRequest(r.env)),
     Runner("write2", r.n, r.env, r.resp),
     Runner("tmo1", r.n, r.env, NewErrorResponse("", RequestTimeout)),
     Runner("tmo2", r.n, r.env, r.resp)}

\* One step of processRequest by the goroutine in state r.
processRequest(r, ret, r2) ==
    \/ TakeResult(r, ret, r2)
    \/ TimeOut(r, ret, r2)
    \/ WriteTimeoutBody(r, ret, r2)
    \/ WriteTimeoutNewline(r, ret, r2)
    \/ WriteBody(r, ret, r2)
    \/ WriteNewline(r, ret, r2)

\* a late result that is written to the standard output after all
LateEngineFinishMutant ==
    /\ proc = "running"
    /\ \E n \in lateEngines :
         /\ lateEngines' = lateEngines \ {n}
         /\ stdout' = Append(stdout, Chunk(n, "body", handleMCPRequest(readLog[n].env)))
    /\ UNCHANGED <<ctxDone, doneClosed, chanClosed, requestChan, reader, workers,
                   serve, stoppers, stdoutOpen, readLog, eofRead, proc>>
    /\ StdioFrame

\* A handleMCPRequest goroutine whose processRequest timed out finishes: its
\* result goes into resultChan, which nobody reads any more.
LateEngineFinish ==
    /\ proc = "running"
    /\ \E n \in lateEngines : lateEngines' = lateEngines \ {n}
    /\ UNCHANGED <<ctxDone, doneClosed, chanClosed, requestChan, reader, workers,
                   serve, stoppers, stdout, stdoutOpen, readLog, eofRead, proc>>
    /\ StdioFrame

\* ---- the worker pool ----

\* stdioWorker without the s.ctx.Done() case and without the check of ok: an
\* idle worker only ever takes a task.
WorkerSelectMutant ==
    /\ proc = "running"
    /\ BagIn(IdleWorker, workers)
    /\ requestChan # <<>>
    /\ requestChan' = Tail(requestChan)
    /\ workers' = BagReplace(workers, IdleWorker,
           Runner("wait", Head(requestChan).n, Head(requestChan).env, NoResponse))
    /\ UNCHANGED <<ctxDone, doneClosed, chanClosed, reader, serve, stoppers,
                   stdout, stdoutOpen, readLog, eofRead, proc, lateEngines>>
    /\ StdioFrame

\* stdioWorker: select between s.ctx.Done() and requestChan; a task taken is
\* handed to processRequest, which starts handleMCPRequest and waits.
WorkerSelect ==
    /\ proc = "running"
    /\ BagIn(IdleWorker, workers)
    /\ \/ /\ ctxDone                          \* case <-s.ctx.Done(): return
          /\ workers' = BagReplace(workers, IdleWorker, ExitedWorker)
          /\ UNCHANGED requestChan
       \/ /\ requestChan # <<>>               \* case task, ok := <-requestChan
          /\ requestChan' = Tail(requestChan)
          /\ workers' = BagReplace(workers, IdleWorker,
                 Runner("wait", Head(requestChan).n, Head(requestChan).env,
                        NoResponse))
       \/ /\ requestChan = <<>> /\ chanClosed  \* !ok: return
          /\ workers' = BagReplace(workers, IdleWorker, ExitedWorker)
          /\ UNCHANGED requestChan
    /\ UNCHANGED <<ctxDone, doneClosed, chanClosed, reader, serve, stoppers,
                   stdout, stdoutOpen, readLog, eofRead, proc, lateEngines>>
    /\ StdioFrame

\* a worker inside s.processRequest(task)
WorkerProcess ==
    /\ proc = "running"
    /\ \E w \in BagToSet(workers) :
         \E r2 \in RunnerStates(w, "idle") :
             /\ processRequest(w, "idle", r2)
             /\ workers' = BagReplace(workers, w, r2)
    /\ UNCHANGED <<doneClosed, chanClosed, requestChan, reader, serve,
                   stdoutOpen, readLog, eofRead, proc>>
    /\ StdioFrame

\* ---- the reader goroutine ----

ReaderAt(pc) == Runner(pc, 0, NoEnvelope, NoResponse)

Logged(env, fate) == [env |-> env, fate |-> fate]

nRead == Len(readLog)

\* top of the loop: select { case <-s.ctx.Done(): return; default: }
ReaderCheck ==
    /\ proc = "running"
    /\ reader.pc = "check"
    /\ reader' = IF ctxDone THEN ReaderAt("deferred") ELSE ReaderAt("read")
    /\ UNCHANGED <<ctxDone, doneClosed, chanClosed, requestChan, workers,
                   lateEngines, serve, stoppers, stdout, stdoutOpen, readLog,
                   eofRead, proc>>
    /\ StdioFrame

\* reader.ReadString returns a line: blank lines are skipped, any other line
\* becomes a task.
ReaderReadLine ==
    /\ proc = "running"
    /\ reader.pc = "read"
    /\ nRead < stdinLen
    /\ \/ /\ reader' = ReaderAt("check")
          /\ readLog' = Append(readLog, Logged(NoEnvelope, "blank"))
       \/ \E env \in StdioLines(nRead + 1) :
             /\ reader' = Runner("select", nRead + 1, env, NoResponse)
             /\ readLog' = Append(readLog, Logged(env, "read"))
    /\ UNCHANGED <<ctxDone, doneClosed, chanClosed, requestChan, workers,
                   lateEngines, serve, stoppers, stdout, stdoutOpen, eofRead, proc>>
    /\ StdioFrame

\* reader.ReadString returns io.EOF: s.cancel() and return
ReaderReadEOF ==
    /\ proc = "running"
    /\ reader.pc = "read"
    /\ ctxDone' = TRUE
    /\ reader' = ReaderAt("deferred")
    /\ eofRead' = TRUE
    /\ UNCHANGED <<doneClosed, chanClosed, requestChan, workers, lateEngines,
                   serve, stoppers, stdout, stdoutOpen, readLog, proc>>
    /\ StdioFrame

SetFate(log, n, fate) == [log EXCEPT ![n].fate = fate]

\* the enqueue select with a default branch that processes the task and
\* leaves it on the channel as well
ReaderSelectMutant ==
    /\ proc = "running"
    /\ reader.pc = "select"
    /\ \/ /\ Len(requestChan) < QueueCap
          /\ requestChan' = Append(requestChan, [n |-> reader.n, env |-> reader.env])
          /\ reader' = Runner("check", 0, NoEnvelope, NoResponse)
          /\ readLog' = [readLog EXCEPT ![reader.n].fate = "queued"]
       \/ /\ ctxDone
          /\ reader' = Runner("deferred", 0, NoEnvelope, NoResponse)
          /\ readLog' = [readLog EXCEPT ![reader.n].fate = "dropped"]
          /\ UNCHANGED requestChan
       \/ /\ Len(requestChan) >= QueueCap /\ ~ctxDone
          /\ reader' = [reader EXCEPT !.pc = "wait"]
          /\ requestChan' = Append(requestChan, [n |-> reader.n, env |-> reader.env])
          /\ readLog' = [readLog EXCEPT ![reader.n].fate = "inline"]
    /\ UNCHANGED <<ctxDone, doneClosed, chanClosed, workers, lateEngines, serve,
                   stoppers, stdout, stdoutOpen, proc, eofRead>>
    /\ StdioFrame

\* select { case requestChan <- task; case <-s.ctx.Done(): return;
\*          default: s.processRequest(task) }
\* The default branch runs only when no other case is ready.
ReaderSelect ==
    /\ proc = "running"
    /\ reader.pc = "select"
    /\ \/ /\ Len(requestChan) < QueueCap
          /\ requestChan' = Append(requestChan, [n |-> reader.n, env |-> reader.env])
          /\ reader' = ReaderAt("check")
          /\ readLog' = SetFate(readLog, reader.n, "queued")
       \/ /\ ctxDone
          /\ reader' = ReaderAt("deferred")
          /\ readLog' = SetFate(readLog, reader.n, "dropped")
          /\ UNCHANGED requestChan
       \/ /\ Len(requestChan) >= QueueCap /\ ~ctxDone
          /\ reader' = [reader EXCEPT !.pc = "wait"]
          /\ readLog' = SetFate(readLog, reader.n, "inline")
          /\ UNCHANGED requestChan
    /\ UNCHANGED <<ctxDone, doneClosed, chanClosed, workers, lateEngines, serve,
                   stoppers, stdout, stdoutOpen, proc, eofRead>>
    /\ StdioFrame

\* the reader inside s.processRequest(task)
ReaderProcess ==
    /\ proc = "running"
    /\ \E r2 \in RunnerStates(reader, "check") :
         /\ processRequest(reader, "check", r2)
         /\ reader' = r2
    /\ UNCHANGED <<doneClosed, chanClosed, requestChan, workers, serve,
                   stdoutOpen, readLog, proc, eofRead>>
    /\ StdioFrame

\* the reader's deferred calls, last first: s.cancel(), close(requestChan),
\* wg.Done()
ReaderDeferred ==
    /\ proc = "running"
    /\ reader.pc = "deferred"
    /\ ctxDone' = TRUE
    /\ chanClosed' = TRUE
    /\ reader' = ReaderAt("exited")
    /\ UNCHANGED <<doneClosed, requestChan, workers, lateEngines, serve, stoppers,
                   stdout, stdoutOpen, readLog, proc, eofRead>>
    /\ StdioFrame

\* ---- startStdioServer's own goroutine ----

AllWorkersExited == BagToSet(workers) = {ExitedWorker}

\* <-s.ctx.Done(), then wg.Wait(), then the guarded close of s.done
ServeStep ==
    /\ proc = "running"
    /\ \/ /\ serve = "waitCtx" /\ ctxDone
          /\ serve' = "waitWg"
          /\ UNCHANGED <<doneClosed, proc>>
       \/ /\ serve = "waitWg" /\ reader.pc = "exited" /\ AllWorkersExited
          /\ serve' = "select"
          /\ UNCHANGED <<doneClosed, proc>>
       \/ /\ serve = "select"                 \* select { case <-s.done: default: }
          /\ serve' = IF doneClosed THEN "returned" ELSE "close"
          /\ UNCHANGED <<doneClosed, proc>>
       \/ /\ serve = "close"                  \* close(s.done)
          /\ IF doneClosed
             THEN proc' = "panicked" /\ UNCHANGED <<serve, doneClosed>>
             ELSE doneClosed' = TRUE /\ serve' = "returned" /\ UNCHANGED proc
    /\ UNCHANGED <<ctxDone, chanClosed, requestChan, reader, workers, lateEngines,
                   stoppers, stdout, stdoutOpen, readLog, eofRead>>
    /\ StdioFrame

\* ---- Cancel, Stop, StopWithContext and the goroutine of handleExit ----

\* the calls by the embedding program now inside Stop or StopWithContext
CallersInside ==
    CopiesIn("stopSelect", stoppers) + CopiesIn("stopClose", stoppers)
    + CopiesIn("swcWait", stoppers) + CopiesIn("swcSelect", stoppers)
    + CopiesIn("swcClose", stoppers)

\* Server.Cancel
Cancel ==
    /\ proc = "running"
    /\ ~ctxDone
    /\ ctxDone' = TRUE
    /\ UNCHANGED <<doneClosed, chanClosed, requestChan, reader, workers,
                   lateEngines, serve, stoppers, stdout, stdoutOpen, readLog,
                   eofRead, proc>>
    /\ StdioFrame

\* Server.Stop is called: s.cancel(); s.httpServer is nil in stdio mode
StopCall ==
    /\ proc = "running"
    /\ CallersInside < MaxStoppers
    /\ ctxDone' = TRUE
    /\ stoppers' = stoppers (+) SetToBag({"stopSelect"})
    /\ UNCHANGED <<doneClosed, chanClosed, requestChan, reader, workers,
                   lateEngines, serve, stdout, stdoutOpen, readLog, eofRead, proc>>
    /\ StdioFrame

\* Server.StopWithContext is called: s.cancel(), then it waits
StopWithContextCall ==
    /\ proc = "running"
    /\ CallersInside < MaxStoppers
    /\ ctxDone' = TRUE
    /\ stoppers' = stoppers (+) SetToBag({"swcWait"})
    /\ UNCHANGED <<doneClosed, chanClosed, requestChan, reader, workers,
                   lateEngines, serve, stdout, stdoutOpen, readLog, eofRead, proc>>
    /\ StdioFrame

\* where a goroutine goes after Stop's (StopWithContext's) guarded close
AfterClose(t) == IF t \in {"exitSelect", "exitClose"} THEN {"exitExit"} ELSE {}
CloseOf(t) == CASE t = "exitSelect" -> "exitClose"
                [] t = "stopSelect" -> "stopClose"
                [] t = "swcSelect" -> "swcClose"

Moved(t, to) == (stoppers (-) SetToBag({t})) (+) SetToBag(to)

StopperStep ==
    /\ proc = "running"
    /\ \E t \in BagToSet(stoppers) :
        \/ /\ t = "exitSleep"                \* time.Sleep is over: s.Stop()
           /\ ctxDone' = TRUE
           /\ stoppers' = Moved(t, {"exitSelect"})
           /\ UNCHANGED <<doneClosed, proc>>
        \/ /\ t = "swcWait" /\ doneClosed    \* case <-s.done: return nil
           /\ stoppers' = Moved(t, {})
           /\ UNCHANGED <<ctxDone, doneClosed, proc>>
        \/ /\ t = "swcWait"                  \* case <-ctx.Done()
           /\ stoppers' = Moved(t, {"swcSelect"})
           /\ UNCHANGED <<ctxDone, doneClosed, proc>>
        \/ /\ t \in {"exitSelect", "stopSelect", "swcSelect"}
           /\ stoppers' = IF doneClosed THEN Moved(t, AfterClose(t))
                          ELSE Moved(t, {CloseOf(t)})
           /\ UNCHANGED <<ctxDone, doneClosed, proc>>
        \/ /\ t \in {"exitClose", "stopClose", "swcClose"}   \* close(s.done)
           /\ IF doneClosed
              THEN proc' = "panicked" /\ UNCHANGED <<stoppers, doneClosed>>
              ELSE /\ doneClosed' = TRUE
                   /\ stoppers' = Moved(t, AfterClose(t))
                   /\ UNCHANGED proc
           /\ UNCHANGED ctxDone
        \/ /\ t = "exitExit"                 \* os.Exit(0)
           /\ proc' = "exited"
           /\ UNCHANGED <<ctxDone, doneClosed, stoppers>>
    /\ UNCHANGED <<chanClosed, requestChan, reader, workers, lateEngines, serve,
                   stdout, stdoutOpen, readLog, eofRead>>
    /\ StdioFrame

\* The client stops reading the server's standard output: writes fail from
\* now on.
CloseStdout ==
    /\ proc = "running"
    /\ stdoutOpen
    /\ stdoutOpen' = FALSE
    /\ UNCHANGED <<ctxDone, doneClosed, chanClosed, requestChan, reader, workers,
                   lateEngines, serve, stoppers, stdout, readLog, eofRead, proc>>
    /\ StdioFrame

\* The server's own goroutines, with the client writing lines to its
\* standard input and closing it.
NextStdio ==
    \/ ReaderCheck \/ ReaderReadLine \/ ReaderReadEOF \/ ReaderSelect
    \/ ReaderProcess \/ ReaderDeferred
    \/ WorkerSelect \/ WorkerProcess \/ LateEngineFinish
    \/ ServeStep
    \/ StopperStep

SpecStdio == InitStdio /\ [][NextStdio]_vars

\* The same, inside an embedding program that calls Cancel, Stop and
\* StopWithContext at any time.
NextStdioEnv ==
    \/ NextStdio
    \/ Cancel \/ StopCall \/ StopWithContextCall

SpecStdioEnv == InitStdio /\ [][NextStdioEnv]_vars

\* The server's own goroutines, with a client that may stop reading the
\* server's output at any time.
NextStdioIO ==
    \/ NextStdio
    \/ CloseStdout

SpecStdioIO == InitStdio /\ [][NextStdioIO]_vars

\* Every goroutine that can take a step eventually takes one (the Go
\* scheduler); what the client sends, and when, is not constrained.
StdioFairness ==
    /\ WF_vars(ReaderCheck) /\ WF_vars(ReaderSelect) /\ WF_vars(ReaderProcess)
    /\ WF_vars(ReaderDeferred)
    /\ WF_vars(WorkerSelect) /\ WF_vars(WorkerProcess)
    /\ WF_vars(LateEngineFinish)
    /\ WF_vars(ServeStep) /\ WF_vars(StopperStep)

SpecStdioFair == InitStdio /\ [][NextStdio]_vars /\ StdioFairness

(***************************************************************************)
(* Properties of the stdio transport.                                      *)
(***************************************************************************)

Lines == 1..Len(readLog)

\* the Writes of a response body for line n
Bodies(n) == {i \in 1..Len(stdout) : stdout[i].part = "body" /\ stdout[i].n = n}

\* the response for line n and its newline have both been written
Answered(n) ==
    \E i \in Bodies(n) :
        \E j \in (i + 1)..Len(stdout) : stdout[j].part = "nl" /\ stdout[j].n = n

\* line n is a well-formed request: JSON, with a number or a string as id
IsRequest(n) == readLog[n].env.json /\ readLog[n].env.id.t \in {"num", "str"}

\* the reader took line n (queue or inline) and the engine answers it
Accepted(n) ==
    /\ readLog[n].fate \in {"queued", "inline"}
    /\ handleMCPRequest(readLog[n].env) # NoResponse

\* nothing is queued or in progress
AllHandled ==
    /\ reader.pc \in {"check", "read"}
    /\ requestChan = <<>>
    /\ BagToSet(workers) = {IdleWorker}

\* C3: when N well-formed requests with distinct ids have been read and
\* handled and the input is still open, exactly N responses have been written
\* and the set of their ids is the set of the requests' ids.
C3_ResponseIdsAreRequestIds ==
    (/\ proc = "running" /\ ~ctxDone /\ ~eofRead
     /\ Lines # {}
     /\ \A n \in Lines : IsRequest(n)
     /\ AllHandled)
    => /\ \A n \in Lines : Cardinality(Bodies(n)) = 1
       /\ {stdout[i].resp.id : i \in UNION {Bodies(n) : n \in Lines}}
            = {readLog[n].env.id : n \in Lines}

\* C4: (in a run without an exit request) when the server signals completion
\* after end-of-input, every request the reader put on the queue or took
\* inline has had its response written.
C4_AcceptedAnsweredBeforeDone ==
    (/\ doneClosed /\ eofRead /\ stdoutOpen
     /\ \A n \in Lines : readLog[n].env.method # "exit")
    => \A n \in Lines : Accepted(n) => Answered(n)

\* C5: Done is closed only after the reader and all workers have stopped.
C5_DoneOnlyAfterAllStopped ==
    doneClosed => (reader.pc = "exited" /\ AllWorkersExited)

C7_OneEnvelopePerLine ==
    \A i \in 1..Len(stdout) :
        (stdout[i].part = "body" /\ i < Len(stdout))
            => stdout[i + 1] = Chunk(stdout[i].n, "nl", NoResponse)

\* the task of line n is in the queue, or a worker holds it
QueuedOrWithWorker(n) ==
    \/ \E i \in 1..Len(requestChan) : requestChan[i].n = n
    \/ \E w \in BagToSet(workers) : w.n = n

\* the reader's step out of the enqueue select
ReaderLeavesSelect == reader.pc = "select" /\ reader'.pc # "select"

\* C8 as claimed: the queue never holds more than its capacity, and a line
\* read while the queue is full is taken inline by the reader, not enqueued
\* and not dropped.
C8_FullQueueMeansInline ==
    /\ [](Len(requestChan) <= QueueCap)
    /\ [][(ReaderLeavesSelect /\ Len(requestChan) >= QueueCap)
            => (reader'.pc = "wait" /\ requestChan' = requestChan)]_vars

\* a line taken inline is never enqueued or given to a worker, is answered
\* at most once, and exactly once when the reader is through with it (if the
\* engine answers it and standard output is still writable)
InlineAnsweredOnce ==
    \A n \in Lines :
        readLog[n].fate = "inline"
        => /\ ~QueuedOrWithWorker(n)
           /\ Cardinality(Bodies(n)) <= 1
           /\ (reader.n # n /\ stdoutOpen
               /\ handleMCPRequest(readLog[n].env) # NoResponse)
              => (Cardinality(Bodies(n)) = 1 /\ Answered(n))

\* C8 as amended: the queue never holds more than its capacity; a line whose
\* enqueue select runs while the queue is full and the server's context is
\* not cancelled is taken inline by the reader (if the context is cancelled
\* the reader returns and the line is dropped); a line taken inline is not
\* also enqueued and is answered exactly once while standard output is
\* writable.
C8_FullQueueInlineUnlessCancelled ==
    /\ [](Len(requestChan) <= QueueCap)
    /\ [](InlineAnsweredOnce)
    /\ [][(ReaderLeavesSelect /\ Len(requestChan) >= QueueCap /\ ~ctxDone)
            => (reader'.pc = "wait" /\ requestChan' = requestChan)]_vars
    /\ [][(ReaderLeavesSelect /\ Len(requestChan) >= QueueCap /\ ctxDone)
            => (reader'.pc = "deferred" /\ requestChan' = requestChan)]_vars

C8_Witness ==
    \E n \in Lines :
        /\ readLog[n].fate = "inline"
        /\ reader.n # n
        /\ Len(requestChan) = QueueCap
        /\ Cardinality(Bodies(n)) = 1 /\ Answered(n)

(***************************************************************************)
(* The SSE transport: GET /sse handlers (handleSSEConnection), POST        *)
(* /messages/ handlers (handleMCPMessages, pushMessageToSession), and      *)
(* removeSSEConnection. Every handler runs in a goroutine of its own.      *)
(*                                                                         *)
(* sseMutex and sessionMutex are not variables: a critical section that    *)
(* only reads or writes a table is one step, and the two sections that     *)
(* last longer are visible in the handlers' positions (sseMutexLocked,     *)
(* sseMutexRLocked).                                                       *)
(***************************************************************************)

\* GET /sse requests of a run
MaxConns == 2

\* POST /messages/ requests of a run
MaxPosts == 2

\* heartbeats a connection lives to see
MaxBeats == 1

ConnIds == 1..MaxConns
PostIds == 1..MaxPosts

\* generateSessionID: a fresh identifier for each connection
generateSessionID(c) == "s" \o ToString(c)

\* MCPSession.Endpoint
Endpoint(sid) == "/messages/?session_id=" \o sid

\* a session id no connection was ever given
UnknownSession == "s0"

\* a body io.ReadAll fails on
Unreadable == [NoEnvelope EXCEPT !.method = "read error"]

\* the bodies a client posts: the request of docs/sse_protocol_guide.md (a
\* number as id), an exit request with a string as id, a notification, and
\* a body that cannot be read
SSEBodies ==
    {Req(IdNum("0"), "tools/list"), Req(IdStr("a"), "exit"),
     Req(IdAbsent, "notifications/initialized"), Unreadable}

NoConn == [pc |-> "none", gone |-> FALSE, ctxDone |-> FALSE, beats |-> 0,
           raced |-> FALSE, buf |-> 0]

NoPost == [pc |-> "none", verb |-> "", sid |-> "", env |-> NoEnvelope,
           status |-> 0, resp |-> NoResponse, ran |-> FALSE, target |-> 0,
           raced |-> FALSE]

Event(ev, p, data, resp, intact) ==
    [ev |-> ev, post |-> p, data |-> data, resp |-> resp, intact |-> intact]

InitSSE ==
    /\ sseConnections = {}
    /\ sessions = [x \in {} |-> x]
    /\ conns = [c \in ConnIds |-> NoConn]
    /\ posts = [p \in PostIds |-> NoPost]
    /\ streams = [c \in ConnIds |-> <<>>]
    /\ sseCtxDone = FALSE
    /\ sseExit = "none"
    /\ request = NoEnvelope /\ response = NoResponse /\ engineCalls = 0
    /\ initSeen = FALSE
    /\ StdioIdle /\ InvokeIdle

\* os.Exit has not been called: neither by the goroutine of handleExit
\* ("exited") nor by main ("killed")
SSERunning == sseExit \notin {"exited", "killed"}

\* the http.Server still accepts requests (Shutdown has not been called)
SSEAccepting == sseExit \in {"none", "sleep"}

\* sseMutex is held for writing: removeSSEConnection between its Lock and
\* its deferred Unlock
sseMutexLocked == \E c \in ConnIds : conns[c].pc = "removeSession"

\* sseMutex is held for reading: a heartbeat is being written
sseMutexRLocked == \E c \in ConnIds : conns[c].pc = "beating"

\* a push that keeps sessionMutex read-locked until it has looked the
\* connection up
sessionMutexHeldMutant == \E p \in PostIds : posts[p].pc = "pushConn"

\* sessionMutex is held from one step to the next by nobody: each of its
\* sections (registration, validation, activity stamp, the push's lookup,
\* the cleanup's delete) locks, touches the table and unlocks without
\* waiting for anything in between, and none of them takes sseMutex inside
sessionMutexHeld == FALSE

\* the client of c still reads and c's handler has not returned
StreamOpen(c) == conns[c].pc \notin {"none", "returned"} /\ ~conns[c].gone

\* some task is inside a Write to c's ResponseWriter
BeingWritten(c) ==
    \/ conns[c].pc = "beating"
    \/ \E q \in PostIds : posts[q].pc = "writing" /\ posts[q].target = c

\* Two Writes to one ResponseWriter that overlap in time are a data race:
\* each of them may come out damaged. A task that starts writing marks
\* itself and everyone already writing to the same connection.
MarkPosts(c, p) ==
    [q \in PostIds |->
        IF q # p /\ posts[q].pc = "writing" /\ posts[q].target = c
        THEN [posts[q] EXCEPT !.raced = TRUE] ELSE posts[q]]

MarkConns(c) ==
    [d \in ConnIds |->
        IF d = c /\ conns[d].pc = "beating"
        THEN [conns[d] EXCEPT !.raced = TRUE] ELSE conns[d]]

\* c's handler is running
Active(c) == conns[c].pc \notin {"none", "returned"}

\* The ResponseWriter of a connection writes through a bufio.Writer that
\* net/http takes from a pool when the request arrives and puts back when
\* the handler returns (buf names the Writer by the connection that first
\* got it). The Writers in the pool:
PooledBufs ==
    {conns[e].buf : e \in {d \in ConnIds : conns[d].pc = "returned"}}
        \ {conns[e].buf : e \in {d \in ConnIds : Active(d)}}

\* the connections whose stream a Write through c's ResponseWriter reaches:
\* c itself while its handler runs; after the handler has returned the
\* Writer is a dangling reference, and the Write reaches the connection that
\* took the Writer from the pool, or nobody
Reached(c) == {d \in ConnIds : Active(d) /\ conns[d].buf = conns[c].buf}

\* what a finished Write through c's ResponseWriter leaves on the streams
Written(c, ev, raced) ==
    IF \E d \in Reached(c) : ~conns[d].gone
    THEN {[streams EXCEPT ![d] = Append(@, [ev EXCEPT !.intact = b])] :
            d \in {e \in Reached(c) : ~conns[e].gone},
            b \in IF raced THEN BOOLEAN ELSE {TRUE}}
    ELSE {streams}

SSEFrame == UNCHANGED <<request, response, initSeen, stdioVars, invokeVars>>

\* handleSSEConnection up to the registration of the connection:
\* s.sseMutex.Lock(); s.sseConnections[clientID] = conn; Unlock()
handleSSEConnection_RegisterConn(c) ==
    /\ SSERunning /\ SSEAccepting
    /\ conns[c].pc = "none"
    /\ \A d \in ConnIds : d < c => conns[d].pc # "none"
    /\ ~sseMutexLocked /\ ~sseMutexRLocked
    /\ sseConnections' = sseConnections \cup {c}
    /\ \E b \in {c} \cup PooledBufs :
         conns' = [conns EXCEPT ![c].pc = "regSession", ![c].buf = b]
    /\ UNCHANGED <<sessions, posts, streams, sseCtxDone, sseExit, engineCalls>>
    /\ SSEFrame

\* s.sessionMutex.Lock(); s.sessions[sessionID] = session; Unlock()
handleSSEConnection_RegisterSession(c) ==
    /\ SSERunning
    /\ conns[c].pc = "regSession"
    /\ ~sessionMutexHeld
    /\ sessions' = [x \in DOMAIN sessions \cup {generateSessionID(c)} |->
                      IF x = generateSessionID(c)
                      THEN [ClientID |-> c, LastActivity |-> 0]
                      ELSE sessions[x]]
    /\ conns' = [conns EXCEPT ![c].pc = "endpoint"]
    /\ UNCHANGED <<sseConnections, posts, streams, sseCtxDone, sseExit,
                   engineCalls>>
    /\ SSEFrame

\* the endpoint event: "event: endpoint\ndata: /messages/?session_id=<id>"
handleSSEConnection_SendEndpoint(c) ==
    /\ SSERunning
    /\ conns[c].pc = "endpoint"
    /\ streams' = [streams EXCEPT ![c] =
           IF StreamOpen(c)
           THEN Append(@, Event("endpoint", 0, Endpoint(generateSessionID(c)),
                                NoResponse, TRUE))
           ELSE @]
    /\ conns' = [conns EXCEPT ![c].pc = "loop"]
    /\ UNCHANGED <<sseConnections, sessions, posts, sseCtxDone, sseExit,
                   engineCalls>>
    /\ SSEFrame

\* the heartbeats written so far
Beats == Cardinality({c \in ConnIds : conns[c].beats > 0})

\* case <-time.After(30 * time.Second): RLock, look the connection up, and
\* start writing the heartbeat
handleSSEConnection_HeartbeatBegin(c) ==
    /\ SSERunning
    /\ conns[c].pc = "loop"
    /\ ~sseCtxDone /\ ~conns[c].ctxDone
    /\ Beats < MaxBeats
    /\ ~sseMutexLocked
    /\ IF c \in sseConnections
       THEN /\ conns' = [conns EXCEPT ![c].pc = "beating",
                                      ![c].beats = @ + 1,
                                      ![c].raced = BeingWritten(c)]
            /\ posts' = MarkPosts(c, 0)
       ELSE /\ conns' = [conns EXCEPT ![c].beats = @ + 1]
            /\ UNCHANGED posts
    /\ UNCHANGED <<sseConnections, sessions, streams, sseCtxDone, sseExit,
                   engineCalls>>
    /\ SSEFrame

\* the heartbeat is written and flushed; RUnlock
handleSSEConnection_HeartbeatEnd(c) ==
    /\ SSERunning
    /\ conns[c].pc = "beating"
    /\ \E st \in Written(c, Event("heartbeat", 0, generateSessionID(c), NoResponse, TRUE),
                         conns[c].raced) :
           streams' = st
    /\ conns' = [conns EXCEPT ![c].pc = "loop", ![c].raced = FALSE]
    /\ UNCHANGED <<sseConnections, sessions, posts, sseCtxDone, sseExit,
                   engineCalls>>
    /\ SSEFrame

\* case <-s.ctx.Done() or case <-connCtx.Done(): removeSSEConnection takes
\* sseMutex, cancels the connection's context and deletes the connection
removeSSEConnection_Conn(c) ==
    /\ SSERunning
    /\ conns[c].pc = "loop"
    /\ sseCtxDone \/ conns[c].ctxDone
    /\ ~sseMutexLocked /\ ~sseMutexRLocked
    /\ IF c \in sseConnections
       THEN /\ conns' = [conns EXCEPT ![c].pc = "removeSession",
                                      ![c].ctxDone = TRUE]
            /\ sseConnections' = sseConnections \ {c}
       ELSE /\ conns' = [conns EXCEPT ![c].pc = "returned"]
            /\ UNCHANGED sseConnections
    /\ UNCHANGED <<sessions, posts, streams, sseCtxDone, sseExit, engineCalls>>
    /\ SSEFrame

\* a cleanup that leaves the session in the table
removeSSEConnection_SessionMutant(c) ==
    /\ SSERunning
    /\ conns[c].pc = "removeSession"
    /\ conns' = [conns EXCEPT ![c].pc = "returned"]
    /\ UNCHANGED <<sseConnections, sessions, posts, streams, sseCtxDone, sseExit,
                   engineCalls>>
    /\ SSEFrame

\* still under sseMutex: sessionMutex.Lock(), delete the first session found
\* whose ClientID is the connection's, unlock both; the handler returns
removeSSEConnection_Session(c) ==
    /\ SSERunning
    /\ conns[c].pc = "removeSession"
    /\ ~sessionMutexHeld
    /\ \/ \E x \in DOMAIN sessions :
            /\ sessions[x].ClientID = c
            /\ sessions' = [y \in DOMAIN sessions \ {x} |-> sessions[y]]
       \/ /\ \A x \in DOMAIN sessions : sessions[x].ClientID # c
          /\ UNCHANGED sessions
    /\ conns' = [conns EXCEPT ![c].pc = "returned"]
    /\ UNCHANGED <<sseConnections, posts, streams, sseCtxDone, sseExit,
                   engineCalls>>
    /\ SSEFrame

\* the client goes away: the request's context is cancelled, and connCtx
\* with it
ClientDisconnect(c) ==
    /\ SSERunning
    /\ conns[c].pc \notin {"none", "returned"}
    /\ ~conns[c].gone
    /\ conns' = [conns EXCEPT ![c].gone = TRUE, ![c].ctxDone = TRUE]
    /\ UNCHANGED <<sseConnections, sessions, posts, streams, sseCtxDone,
                   sseExit, engineCalls>>
    /\ SSEFrame

\* the session ids a client can name: none, one it read from an endpoint
\* event, or one the server never issued
KnownSessions ==
    {generateSessionID(c) : c \in {d \in ConnIds : Len(streams[d]) > 0}}

\* the requests for /messages/ that may arrive: a POST naming a session the
\* client knows, with any body; a POST with no or an unknown session_id (its
\* body is never read); a request that is not a POST
Arriving ==
    {[NoPost EXCEPT !.verb = "POST", !.sid = sid, !.env = env] :
        sid \in KnownSessions, env \in SSEBodies}
    \cup {[NoPost EXCEPT !.verb = "POST", !.sid = sid] : sid \in {"", UnknownSession}}
    \cup {[NoPost EXCEPT !.verb = "GET", !.sid = UnknownSession]}

\* a validation that turns away a request without session_id only
handleMCPMessages_ValidateMutant(p) ==
    /\ SSERunning /\ SSEAccepting
    /\ posts[p].pc = "none"
    /\ \A q \in PostIds : q < p => posts[q].pc # "none"
    /\ \E r \in Arriving :
         posts' = [posts EXCEPT ![p] =
             IF r.verb # "POST"
             THEN [r EXCEPT !.pc = "done", !.status = 405]
             ELSE IF r.sid = ""
             THEN [r EXCEPT !.pc = "done", !.status = 400]
             ELSE [r EXCEPT !.pc = "handle"]]
    /\ UNCHANGED <<sseConnections, sessions, conns, streams, sseCtxDone,
                   sseExit, engineCalls>>
    /\ SSEFrame

\* handleMCPMessages, a request arrives: 405 unless POST; 400 without
\* session_id; the session is looked up under sessionMutex.RLock, 400 if it
\* is not registered
handleMCPMessages_Validate(p) ==
    /\ SSERunning /\ SSEAccepting
    /\ posts[p].pc = "none"
    /\ \A q \in PostIds : q < p => posts[q].pc # "none"
    /\ \E r \in Arriving :
         posts' = [posts EXCEPT ![p] =
             IF r.verb # "POST"
             THEN [r EXCEPT !.pc = "done", !.status = 405]
             ELSE IF r.sid = ""
             THEN [r EXCEPT !.pc = "done", !.status = 400]
             ELSE IF r.sid \notin DOMAIN sessions
             THEN [r EXCEPT !.pc = "done", !.status = 400]
             ELSE [r EXCEPT !.pc = "handle"]]
    /\ UNCHANGED <<sseConnections, sessions, conns, streams, sseCtxDone,
                   sseExit, engineCalls>>
    /\ SSEFrame

\* sessionMutex.Lock(); session.LastActivity = time.Now(); Unlock() (the
\* session is the object the lookup found, registered or not by now);
\* io.ReadAll (400 if it fails); handleMCPRequest; 202 and
\* {"status":"Accepted"}
handleMCPMessages_Handle(p) ==
    /\ SSERunning
    /\ posts[p].pc = "handle"
    /\ ~sessionMutexHeld
    /\ sessions' = [x \in DOMAIN sessions |->
                      IF x = posts[p].sid
                      THEN [sessions[x] EXCEPT !.LastActivity = 1]
                      ELSE sessions[x]]
    /\ IF posts[p].env = Unreadable
       THEN /\ posts' = [posts EXCEPT ![p].pc = "done", ![p].status = 400]
            /\ UNCHANGED <<engineCalls, sseExit>>
       ELSE /\ posts' = [posts EXCEPT ![p].pc = "pushSession",
                                      ![p].status = 202,
                                      ![p].ran = TRUE,
                                      ![p].resp = handleMCPRequest(posts[p].env)]
            /\ engineCalls' = engineCalls + 1
            /\ sseExit' = IF ExitScheduled(posts[p].env) /\ sseExit = "none"
                          THEN "sleep" ELSE sseExit
    /\ UNCHANGED <<sseConnections, conns, streams, sseCtxDone>>
    /\ SSEFrame

\* pushMessageToSession: the session is looked up under sessionMutex.RLock
pushMessageToSession_Session(p) ==
    /\ SSERunning
    /\ posts[p].pc = "pushSession"
    /\ posts' = [posts EXCEPT ![p] =
         IF posts[p].sid \in DOMAIN sessions
         THEN [@ EXCEPT !.pc = "pushConn",
                        !.target = sessions[posts[p].sid].ClientID]
         ELSE [@ EXCEPT !.pc = "done"]]
    /\ UNCHANGED <<sseConnections, sessions, conns, streams, sseCtxDone,
                   sseExit, engineCalls>>
    /\ SSEFrame

\* the connection is looked up under sseMutex.RLock
pushMessageToSession_Conn(p) ==
    /\ SSERunning
    /\ posts[p].pc = "pushConn"
    /\ ~sseMutexLocked
    /\ posts' = [posts EXCEPT ![p] =
         IF posts[p].target \in sseConnections
         THEN [@ EXCEPT !.pc = "write"]
         ELSE [@ EXCEPT !.pc = "done", !.target = 0]]
    /\ UNCHANGED <<sseConnections, sessions, conns, streams, sseCtxDone,
                   sseExit, engineCalls>>
    /\ SSEFrame

\* fmt.Fprint(conn.Writer, messageEvent) starts, no lock held
pushMessageToSession_WriteBegin(p) ==
    /\ SSERunning
    /\ posts[p].pc = "write"
    /\ posts' = [MarkPosts(posts[p].target, p) EXCEPT
                    ![p].pc = "writing",
                    ![p].raced = BeingWritten(posts[p].target)]
    /\ conns' = MarkConns(posts[p].target)
    /\ UNCHANGED <<sseConnections, sessions, streams, sseCtxDone, sseExit,
                   engineCalls>>
    /\ SSEFrame

\* the message event is written and flushed: "event: message\ndata: " and
\* the response's bytes, none if the engine returned no response
pushMessageToSession_WriteEnd(p) ==
    /\ SSERunning
    /\ posts[p].pc = "writing"
    /\ \E st \in Written(posts[p].target,
                         Event("message", p, "", posts[p].resp, TRUE),
                         posts[p].raced) :
           streams' = st
    /\ posts' = [posts EXCEPT ![p].pc = "done", ![p].raced = FALSE]
    /\ UNCHANGED <<sseConnections, sessions, conns, sseCtxDone, sseExit,
                   engineCalls>>
    /\ SSEFrame

\* every handler has returned (what http.Server.Shutdown waits for)
AllHandlersReturned ==
    /\ \A c \in ConnIds : conns[c].pc \in {"none", "returned"}
    /\ \A p \in PostIds : posts[p].pc \in {"none", "done"}

\* the goroutine of handleExit: Sleep(50ms); s.Stop(), which cancels s.ctx
\* and waits in httpServer.Shutdown; os.Exit(0)
handleExit_Goroutine ==
    /\ SSERunning
    /\ \/ /\ sseExit = "sleep"
          /\ sseExit' = "shutdown"
          /\ sseCtxDone' = TRUE
       \/ /\ sseExit = "shutdown"
          /\ AllHandlersReturned
          /\ sseExit' = "exited"
          /\ UNCHANGED sseCtxDone
    /\ UNCHANGED <<sseConnections, sessions, conns, posts, streams, engineCalls>>
    /\ SSEFrame

\* Server.Cancel, called by main on SIGINT/SIGTERM
SSECancel ==
    /\ SSERunning
    /\ ~sseCtxDone
    /\ sseCtxDone' = TRUE
    /\ UNCHANGED <<sseConnections, sessions, conns, posts, streams, sseExit,
                   engineCalls>>
    /\ SSEFrame

\* main ends the process: os.Exit(0) 100ms after the signal that made it call
\* Cancel, or os.Exit(1) when Start returns because Stop's Shutdown has made
\* ListenAndServe return http.ErrServerClosed. Either way s.ctx is cancelled
\* by then, and no handler is waited for.
mainExit ==
    /\ SSERunning
    /\ sseCtxDone
    /\ sseExit' = "killed"
    /\ UNCHANGED <<sseConnections, sessions, conns, posts, streams, sseCtxDone,
                   engineCalls>>
    /\ SSEFrame

NextSSE ==
    \/ \E c \in ConnIds :
        \/ handleSSEConnection_RegisterConn(c)
        \/ handleSSEConnection_RegisterSession(c)
        \/ handleSSEConnection_SendEndpoint(c)
        \/ handleSSEConnection_HeartbeatBegin(c)
        \/ handleSSEConnection_HeartbeatEnd(c)
        \/ removeSSEConnection_Conn(c)
        \/ removeSSEConnection_Session(c)
        \/ ClientDisconnect(c)
    \/ \E p \in PostIds :
        \/ handleMCPMessages_Validate(p)
        \/ handleMCPMessages_Handle(p)
        \/ pushMessageToSession_Session(p)
        \/ pushMessageToSession_Conn(p)
        \/ pushMessageToSession_WriteBegin(p)
        \/ pushMessageToSession_WriteEnd(p)
    \/ handleExit_Goroutine
    \/ SSECancel
    \/ mainExit

SpecSSE == InitSSE /\ [][NextSSE]_vars

(***************************************************************************)
(* Properties of the SSE transport.                                        *)
(***************************************************************************)

\* the events written for POST p, on any stream
EventsOf(p) ==
    {<<c, i>> \in ConnIds \X (1..(MaxPosts + MaxBeats + 1)) :
        i <= Len(streams[c]) /\ streams[c][i].post = p}

\* POST p arrives and passes through handleMCPMessages' validation
Validated(p) == posts[p].pc = "none" /\ posts'[p].pc # "none"

\* C9: a POST whose session_id is missing or names no registered session
\* when it is looked up is answered 400; that step changes neither table,
\* writes no event and runs no engine; and a POST answered 400 never has its
\* body run through the engine or an event written for it.
C9_UnknownSessionIs400 ==
    /\ [][\A p \in PostIds :
            (Validated(p) /\ posts'[p].verb = "POST"
             /\ posts'[p].sid \notin DOMAIN sessions)
            => /\ posts'[p].pc = "done" /\ posts'[p].status = 400
               /\ UNCHANGED <<sseConnections, sessions, streams, engineCalls>>]_vars
    /\ [](\A p \in PostIds :
            posts[p].status = 400 => (~posts[p].ran /\ EventsOf(p) = {}))

\* a 400 for the id of a session that was registered and has been removed,
\* while another session is registered
C9_Witness ==
    \E p \in PostIds, c \in ConnIds :
        /\ posts[p].pc = "done" /\ posts[p].status = 400
        /\ posts[p].sid = generateSessionID(c)
        /\ conns[c].pc = "returned"
        /\ DOMAIN sessions # {}

\* C10: when the handler of a POST that named a registered session and
\* carried a request with an id has finished, and the session's connection
\* is still open, the caller has got 202 and exactly one message event for
\* this POST is on the session's stream, carrying the response with the
\* request's id.
C10_AcceptedPostIsAnsweredOnStream ==
    \A p \in PostIds, c \in ConnIds :
        (/\ posts[p].pc = "done" /\ posts[p].verb = "POST"
         /\ posts[p].sid = generateSessionID(c)
         /\ posts[p].sid \in DOMAIN sessions /\ c \in sseConnections
         /\ StreamOpen(c)
         /\ posts[p].env.json /\ posts[p].env.id.t \in {"num", "str"})
        => /\ posts[p].status = 202
           /\ EventsOf(p) \subseteq {c} \X (1..Len(streams[c]))
           /\ Cardinality(EventsOf(p)) = 1
           /\ \A e \in EventsOf(p) :
                /\ streams[e[1]][e[2]].ev = "message"
                /\ streams[e[1]][e[2]].intact
                /\ streams[e[1]][e[2]].resp # NoResponse
                /\ streams[e[1]][e[2]].resp.id = posts[p].env.id

\* C11: an event written for a POST is on the stream of the connection that
\* holds the session the POST named, never on another connection's stream.
C11_PushOnlyToOwnStream ==
    \A d \in ConnIds :
        \A i \in 1..Len(streams[d]) :
            streams[d][i].post # 0
                => posts[streams[d][i].post].sid = generateSessionID(d)

\* C12: a POST to a registered session whose envelope is a notification (no
\* id, method notifications/...) is answered 202 and no event is ever
\* written for it.
C12_NotificationPushesNothing ==
    \A p \in PostIds :
        (/\ posts[p].ran
         /\ posts[p].env.json /\ posts[p].env.id = IdAbsent
         /\ posts[p].env.method
                \in {"notifications/initialized", "notifications/cancelled"})
        => (posts[p].status = 202 /\ EventsOf(p) = {})

\* C13: every registered session has exactly one registered connection as
\* its push target (the connection its ClientID names), and no connection is
\* the push target of two sessions.
C13_OnePushTargetPerSession ==
    /\ \A x \in DOMAIN sessions : sessions[x].ClientID \in sseConnections
    /\ \A x, y \in DOMAIN sessions :
        sessions[x].ClientID = sessions[y].ClientID => x = y

\* Every handler goroutine that can take a step eventually takes it, and so
\* does the goroutine of handleExit. Nothing is assumed of the clients
\* (connecting, disconnecting, posting), of the heartbeat timer or of the
\* signal that calls Cancel.
SSEFairness ==
    /\ \A c \in ConnIds :
        /\ WF_vars(handleSSEConnection_RegisterSession(c))
        /\ WF_vars(handleSSEConnection_SendEndpoint(c))
        /\ WF_vars(handleSSEConnection_HeartbeatEnd(c))
        /\ WF_vars(removeSSEConnection_Conn(c))
        /\ WF_vars(removeSSEConnection_Session(c))
    /\ \A p \in PostIds :
        /\ WF_vars(handleMCPMessages_Handle(p))
        /\ WF_vars(pushMessageToSession_Session(p))
        /\ WF_vars(pushMessageToSession_Conn(p))
        /\ WF_vars(pushMessageToSession_WriteBegin(p))
        /\ WF_vars(pushMessageToSession_WriteEnd(p))
    /\ WF_vars(handleExit_Goroutine)

\* The SSE transport with a single POST in the run (the runs over which the
\* liveness properties are checked).
NextSSEOnePost ==
    \/ \E c \in ConnIds :
        \/ handleSSEConnection_RegisterConn(c)
        \/ handleSSEConnection_RegisterSession(c)
        \/ handleSSEConnection_SendEndpoint(c)
        \/ handleSSEConnection_HeartbeatBegin(c)
        \/ handleSSEConnection_HeartbeatEnd(c)
        \/ removeSSEConnection_Conn(c)
        \/ removeSSEConnection_Session(c)
        \/ ClientDisconnect(c)
    \/ \E p \in {q \in PostIds : \A r \in PostIds : q <= r} :
        \/ handleMCPMessages_Validate(p)
        \/ handleMCPMessages_Handle(p)
        \/ pushMessageToSession_Session(p)
        \/ pushMessageToSession_Conn(p)
        \/ pushMessageToSession_WriteBegin(p)
        \/ pushMessageToSession_WriteEnd(p)
    \/ handleExit_Goroutine
    \/ SSECancel
    \/ mainExit

SpecSSEFair == InitSSE /\ [][NextSSEOnePost]_vars /\ SSEFairness

\* connection c and its session are in neither table
Removed(c) ==
    c \notin sseConnections /\ generateSessionID(c) \notin DOMAIN sessions

C15_EndpointEventFirst ==
    \A c \in ConnIds :
        Len(streams[c]) > 0
            => streams[c][1] = Event("endpoint", 0,
                                     Endpoint(generateSessionID(c)),
                                     NoResponse, TRUE)

(***************************************************************************)
(* Properties of the protocol engine.                                      *)
(***************************************************************************)

\* the envelope is one of the four protocol errors
NotJson(req) == ~req.json
BadVersion(req) == req.json /\ req.jsonrpc # "2.0"
UnknownMethod(req) ==
    /\ req.json /\ req.jsonrpc = "2.0"
    /\ req.method \notin {"initialize", "notifications/initialized",
                          "notifications/cancelled", "tools/list",
                          "toolCall", "tools/call", "exit"}
BadParams(req) ==
    /\ req.json /\ req.jsonrpc = "2.0"
    /\ req.method \in {"initialize", "toolCall", "tools/call"}
    /\ req.params # "ok"

IsError(resp, code) == resp.kind = "error" /\ resp.code = code

\* C16: the engine answers a body that is not JSON with -32700, otherwise a
\* version other than "2.0" with -32600, otherwise an unknown method with
\* -32601 and unparsable params of initialize or tools/call with -32602; in
\* these cases the tool invoker is not reached and no shutdown is scheduled.
C16_ProtocolErrorCodes ==
    engineCalls = 1 =>
        /\ NotJson(request) => IsError(response, ParseError)
        /\ BadVersion(request) => IsError(response, InvalidVersion)
        /\ UnknownMethod(request) => IsError(response, MethodNotFound)
        /\ BadParams(request) => IsError(response, InvalidParams)
        /\ (NotJson(request) \/ BadVersion(request) \/ UnknownMethod(request)
            \/ BadParams(request))
           => (~ToolInvoked(request) /\ ~ExitScheduled(request))

C16_Witness ==
    /\ engineCalls = 1
    /\ request.json /\ request.jsonrpc = "2.0"
    /\ request.method = "tools/call" /\ request.params = "bad"
    /\ request.tool = "success"
    /\ IsError(response, InvalidParams)

(***************************************************************************)
(* The server in either mode.                                              *)
(***************************************************************************)

\* Server.Start: config.Server.Mode selects the transport that serves
StdioMode == serve # "none"

NextServe ==
    \/ StdioMode /\ NextStdioIO
    \/ ~StdioMode /\ NextSSE

SpecServe == (InitStdio \/ InitSSE) /\ [][NextServe]_vars

\* what may stop the stdio loops: end-of-input has been read, the output has
\* failed, or an exit request has been read
StdioStopCause ==
    \/ eofRead
    \/ ~stdoutOpen
    \/ \E n \in Lines : ExitScheduled(readLog[n].env)

\* a loop of the stdio transport has stopped
StdioLoopStopped ==
    \/ reader.pc \in {"deferred", "exited"}
    \/ ExitedWorker \in BagToSet(workers)
    \/ serve # "waitCtx"
    \/ proc # "running"

\* the response written for line n is the timeout error
TimedOut(n) == \E i \in Bodies(n) : IsError(stdout[i].resp, RequestTimeout)

HandlerPanic ==
    /\ proc = "running"
    /\ \/ /\ reader.pc = "wait" /\ ToolInvoked(reader.env)
          /\ reader' = [reader EXCEPT !.pc = "faulted"]
          /\ UNCHANGED workers
       \/ \E w \in BagToSet(workers) :
            /\ w.pc = "wait" /\ ToolInvoked(w.env)
            /\ workers' = BagReplace(workers, w, [w EXCEPT !.pc = "faulted"])
            /\ UNCHANGED reader
    /\ proc' = "panicked"
    /\ UNCHANGED <<ctxDone, doneClosed, chanClosed, requestChan, lateEngines,
                   serve, stoppers, stdout, stdoutOpen, readLog, eofRead>>
    /\ StdioFrame

NextStdioFault ==
    \/ NextStdio
    \/ HandlerPanic

SpecStdioFault == InitStdio /\ [][NextStdioFault]_vars

\* the handling of some request has panicked
Faulted ==
    \/ reader.pc = "faulted"
    \/ \E w \in BagToSet(workers) : w.pc = "faulted"

IsToolsRequest(req) ==
    /\ req.json /\ req.jsonrpc = "2.0"
    /\ req.method \in {"tools/list", "toolCall", "tools/call"}

ToolsAnswer(req) ==
    IF req.method = "tools/list" THEN handleToolsList(req) ELSE handleToolCall(req)

ExitWithId(n) ==
    /\ ExitScheduled(readLog[n].env)
    /\ readLog[n].env.id.t \in {"num", "str"}
    /\ Accepted(n)

\* C20: when the process has exited (os.Exit(0) in the goroutine of
\* handleExit), the acknowledgement of every exit request with an id that was
\* taken has been written to the output, body and newline.
C20_ExitAcknowledgedBeforeExit ==
    proc = "exited" => \A n \in Lines : ExitWithId(n) => Answered(n)

(***************************************************************************)
(* The tool invoker: the operations of the loaded OpenAPI document, their  *)
(* names, and RequestHandler.HandleRequest.                                *)
(***************************************************************************)

MaxOps == 3

\* a path is the sequence of its segments between the slashes; "{id}" is a
\* path-parameter placeholder
PathParamNames == {"id"}
Placeholder(n) == "{" \o n \o "}"
Paths == {<<"users">>, <<"users", Placeholder("id")>>,
          <<"users", Placeholder("id"), "orders">>, <<"orders">>}

\* the keys of a path item: HTTP verbs and other members
PathItemKeys == {"get", "post", "parameters"}

\* strings.ToUpper, strings.ToLower and strings.Title on the strings in use
ToUpper(x) ==
    CASE x = "get" -> "GET" [] x = "post" -> "POST"
      [] x = "parameters" -> "PARAMETERS"
      [] x = "ApiKeyAuth" -> "APIKEYAUTH" [] x = "Bearer" -> "BEARER"
      [] x = "OAuth" -> "OAUTH" [] x = "Basic" -> "BASIC"
      [] x = "Digest" -> "DIGEST" [] x = "Oidc" -> "OIDC"
      [] OTHER -> x
ToLower(x) ==
    CASE x = "GET" -> "get" [] x = "POST" -> "post" [] OTHER -> x
\* a Title that leaves the first letter as it is
TitleMutant(x) == x

Title(x) ==
    CASE x = "users" -> "Users" [] x = "orders" -> "Orders" [] OTHER -> x

\* isHTTPMethod
isHTTPMethod(method) ==
    ToUpper(method) \in {"GET", "POST", "PUT", "DELETE", "PATCH", "HEAD",
                         "OPTIONS", "TRACE"}

\* generateOperationID: the segments that are placeholders are left out, the
\* others are title-cased and joined after the lower-cased method
RECURSIVE JoinTitled(_)
JoinTitled(parts) ==
    IF parts = <<>> THEN ""
    ELSE (IF \E n \in PathParamNames : Head(parts) = Placeholder(n)
          THEN ""
          ELSE Title(Head(parts))) \o JoinTitled(Tail(parts))

generateOperationID(method, path) == ToLower(method) \o JoinTitled(path)

\* the operations of the document: the (path, key) pairs whose key is a verb
Operations(spec) == {o \in spec.Paths : isHTTPMethod(o[2])}

\* the orders in which a range over a map can visit the members of S
Orders(S) == {f \in [1..Cardinality(S) -> S] : \A i, j \in DOMAIN f : f[i] = f[j] => i = j}

\* the parts of the document HandleRequest reads are fixed while the tool list
\* is looked at
BareSpec(paths) ==
    [Paths |-> paths, baseURL |-> "https://x", parameters |-> <<>>,
     hasBody |-> FALSE, security |-> <<>>]

InitIndex ==
    /\ openAPISpec \in {BareSpec(ps) : ps \in {qs \in SUBSET (Paths \X PathItemKeys) :
                                                 Cardinality(qs) \in 1..MaxOps}}
    /\ defaultHeaders = {} /\ environ = {} /\ toolCall = {}
    /\ outbound = <<>> /\ invoked = {} /\ tools = <<>>
    /\ request = NoEnvelope /\ response = NoResponse /\ engineCalls = 0
    /\ initSeen = FALSE
    /\ StdioIdle /\ SSEIdle

\* RequestHandler.GetAvailableTools: one descriptor for every operation, named
\* by generateOperationID (op records which operation it describes)
GetAvailableTools ==
    /\ tools = <<>>
    /\ \E f \in Orders(Operations(openAPISpec)) :
         tools' = [i \in DOMAIN f |->
                     [name |-> generateOperationID(f[i][2], f[i][1]), op |-> f[i]]]
    /\ tools' # <<>>
    /\ UNCHANGED <<openAPISpec, defaultHeaders, environ, toolCall, outbound, invoked>>
    /\ UNCHANGED <<engineVars, stdioVars, sseVars>>

SpecIndex == InitIndex /\ [][GetAvailableTools]_vars

\* C30: no two operations of the loaded document are listed under the same
\* name.
C30_ToolNamesUnique ==
    \A i, j \in DOMAIN tools : tools[i].name = tools[j].name => i = j

(***************************************************************************)
(* RequestHandler.HandleRequest: OperationIndex, buildHTTPRequest,         *)
(* applyAuthentication, default headers, the outbound call, the status     *)
(* policy.                                                                 *)
(***************************************************************************)

\* an operation parameter (config.Parameter): Name, In, Required
Param(name, in, required) == [Name |-> name, In |-> in, Required |-> required]

\* the parameter lists an operation may declare, and what a call may supply
ParamDecls ==
    {<<>>,
     <<Param("id", "path", TRUE)>>, <<Param("id", "path", FALSE)>>,
     <<Param("q", "query", TRUE)>>,
     <<Param("X-Trace", "header", TRUE)>>, <<Param("X-Trace", "header", FALSE)>>,
     <<Param("b", "body", TRUE)>>, <<Param("b", "body", FALSE)>>,
     <<Param("id", "path", TRUE), Param("X-Trace", "header", TRUE)>>}
Supplied == {{}, {"id"}, {"q"}, {"X-Trace"}, {"b"}, {"id", "X-Trace"}}

\* components.securitySchemes of the document: Type, Scheme, Name
SecuritySchemes ==
    [n \in {"ApiKeyAuth", "Bearer", "Basic", "Digest", "OAuth", "Oidc"} |->
        CASE n = "ApiKeyAuth" -> [Type |-> "apiKey", Scheme |-> "", Name |-> "X-API-Key"]
          [] n = "Bearer" -> [Type |-> "http", Scheme |-> "bearer", Name |-> ""]
          [] n = "Basic" -> [Type |-> "http", Scheme |-> "basic", Name |-> ""]
          [] n = "Digest" -> [Type |-> "http", Scheme |-> "digest", Name |-> ""]
          [] n = "OAuth" -> [Type |-> "oauth2", Scheme |-> "", Name |-> ""]
          [] OTHER -> [Type |-> "openIdConnect", Scheme |-> "", Name |-> ""]]

\* the security an operation may declare: a list of requirements, each a map
\* keyed by scheme name ("Ghost" is in no table)
Securities ==
    {<<>>, <<{}>>} \cup {<<{n}>> : n \in DOMAIN SecuritySchemes \cup {"Ghost"}}
    \cup {<<{"Digest", "Bearer"}>>, <<{"ApiKeyAuth"}, {"Bearer"}>>}

Environs == {{}, {"APIKEYAUTH_API_KEY"}, {"APIKEYAUTH_API_KEY", "BEARER_TOKEN", "OAUTH_TOKEN"}}
DefaultHeaderSets == {{}, {"Accept"}, {"Authorization"}}

\* what the outbound call meets: no response (connection failure, timeout),
\* a response whose body cannot be read, or a status and a body
Statuses == {100, 200, 204, 301, 404, 500, 600}
Outcomes ==
    {[net |-> "fail", status |-> 0, json |-> FALSE],
     [net |-> "readFail", status |-> 200, json |-> FALSE]}
    \cup [net : {"ok"}, status : Statuses, json : BOOLEAN]

\* http.Header.Set
HeaderSet(h, k, v) == [n \in DOMAIN h \cup {k} |-> IF n = k THEN v ELSE h[n]]
NoHeaders == [n \in {} |-> ""]

NoRequest == [method |-> "", url |-> <<>>, query |-> {}, body |-> {}, header |-> NoHeaders]
Failure(stage) == [err |-> stage, req |-> NoRequest]
Built(req) == [err |-> "", req |-> req]

\* openapi.GetOperationByID: the operations whose generated identifier is the
\* tool name (explicit identifiers are not modelled); none is NotFound
GetOperationByID(spec, name) ==
    {o \in Operations(spec) : generateOperationID(o[2], o[1]) = name}

\* the parameters of location in that the operation declares
Declared(spec, in) ==
    {spec.parameters[i] : i \in {j \in DOMAIN spec.parameters : spec.parameters[j].In = in}}

\* a check of required parameters that lets a missing path parameter pass
MissingRequiredMutant(spec, in, params) ==
    in # "path" /\ \E q \in Declared(spec, in) : q.Required /\ q.Name \notin params

\* a required parameter of that location is not among the supplied ones
MissingRequired(spec, in, params) ==
    \E q \in Declared(spec, in) : q.Required /\ q.Name \notin params

\* strings.ReplaceAll(fullURL, "{"+name+"}", value) for the supplied path
\* parameters the operation declares
Substituted(spec, path, params) ==
    [i \in DOMAIN path |->
        IF \E q \in Declared(spec, "path") :
              q.Name \in params /\ path[i] = Placeholder(q.Name)
        THEN "value"
        ELSE path[i]]

\* RequestHandler.buildHTTPRequest
buildHTTPRequest(spec, method, path, params) ==
    IF spec.baseURL = "" THEN Failure("build")
    ELSE IF MissingRequired(spec, "path", params) THEN Failure("build")
    ELSE IF method \in {"GET", "DELETE"} /\ MissingRequired(spec, "query", params)
    THEN Failure("build")
    ELSE IF /\ method \in {"POST", "PUT", "PATCH"} /\ spec.hasBody
            /\ MissingRequired(spec, "body", params)
    THEN Failure("build")
    ELSE Built([method |-> method,
                url |-> <<spec.baseURL>> \o Substituted(spec, path, params),
                query |-> IF method \in {"GET", "DELETE"}
                          THEN {q.Name : q \in Declared(spec, "query")} \cap params
                          ELSE {},
                body |-> IF method \in {"POST", "PUT", "PATCH"} /\ spec.hasBody
                         THEN (IF {q.Name : q \in Declared(spec, "body")} \cap params # {}
                               THEN {q.Name : q \in Declared(spec, "body")} \cap params
                               ELSE params)
                         ELSE {},
                header |-> IF method \in {"POST", "PUT", "PATCH"}
                           THEN HeaderSet(NoHeaders, "Content-Type", "application/json")
                           ELSE NoHeaders])

\* applyAuthentication, the switch on securityScheme.Type: the AuthConfig for
\* the scheme (Type "" when no case matches)
AuthConfigOf(schemeName, scheme) ==
    CASE scheme.Type = "apiKey" ->
            [Type |-> "api_key", HeaderName |-> scheme.Name,
             KeyEnv |-> ToUpper(schemeName) \o "_API_KEY", TokenEnv |-> ""]
      [] scheme.Type = "http" /\ scheme.Scheme = "bearer" ->
            [Type |-> "bearer", HeaderName |-> "", KeyEnv |-> "",
             TokenEnv |-> ToUpper(schemeName) \o "_TOKEN"]
      [] scheme.Type = "http" /\ scheme.Scheme = "basic" ->
            [Type |-> "basic", HeaderName |-> "", KeyEnv |-> "", TokenEnv |-> ""]
      [] scheme.Type = "oauth2" ->
            [Type |-> "oauth2", HeaderName |-> "", KeyEnv |-> "",
             TokenEnv |-> ToUpper(schemeName) \o "_TOKEN"]
      [] OTHER -> [Type |-> "", HeaderName |-> "", KeyEnv |-> "", TokenEnv |-> ""]

\* an ApplyAuth that skips a credential whose environment variable is not set
ApplyAuthMutant(req, authConfig, env) ==
    CASE authConfig.Type \in {"bearer", "oauth2"} /\ authConfig.TokenEnv \in env ->
            Built([req EXCEPT !.header = HeaderSet(@, "Authorization",
                                             "Bearer " \o authConfig.TokenEnv)])
      [] authConfig.Type = "api_key" /\ authConfig.KeyEnv \in env ->
            Built([req EXCEPT !.header = HeaderSet(@, authConfig.HeaderName,
                                                   authConfig.KeyEnv)])
      [] authConfig.Type = "basic" -> Failure("auth")
      [] OTHER -> Built(req)

\* AuthManager.ApplyAuth with applyBearerAuth, applyAPIKeyAuth, applyBasicAuth
\* and applyOAuth2Auth; env holds the variables os.Getenv finds not empty, and
\* the secret of a variable is written as the variable's name
ApplyAuth(req, authConfig, env) ==
    CASE authConfig.Type = "" -> Built(req)
      [] authConfig.Type \in {"bearer", "oauth2"} ->
            IF authConfig.TokenEnv = "" \/ authConfig.TokenEnv \notin env
            THEN Failure("auth")
            ELSE Built([req EXCEPT !.header = HeaderSet(@, "Authorization",
                                                 "Bearer " \o authConfig.TokenEnv)])
      [] authConfig.Type = "api_key" ->
            IF \/ authConfig.HeaderName = "" \/ authConfig.KeyEnv = ""
               \/ authConfig.KeyEnv \notin env
            THEN Failure("auth")
            ELSE Built([req EXCEPT !.header = HeaderSet(@, authConfig.HeaderName,
                                                       authConfig.KeyEnv)])
      [] OTHER -> Failure("auth")

\* the scheme names a range over the first requirement can visit first ("" when
\* there is nothing to apply)
FirstSchemes(spec) ==
    IF spec.security = <<>> \/ spec.security[1] = {} THEN {""} ELSE spec.security[1]

\* RequestHandler.applyAuthentication, for the scheme the range visits first
applyAuthentication(spec, req, env, schemeName) ==
    IF schemeName = "" THEN Built(req)
    ELSE IF schemeName \notin DOMAIN SecuritySchemes THEN Failure("auth")
    ELSE ApplyAuth(req, AuthConfigOf(schemeName, SecuritySchemes[schemeName]), env)

\* the default headers of the configuration, set on the request
WithDefaults(req, names) ==
    [req EXCEPT !.header = [n \in DOMAIN req.header \cup names |->
                              IF n \in names THEN "default" ELSE req.header[n]]]

\* the body of the outbound response
RawBody(outcome) == IF outcome.json THEN "{\"a\":1}" ELSE "not json"

\* what HandleRequest returns: ret is "result" for a ToolCallResult (result)
\* and "error" for a Go error, stage is the step that failed; steps records the
\* operation resolved, the scheme applied, the request as far as it got, what
\* the outbound call met and whether the response transformer ran
Result(type, message, code, body) ==
    [Type |-> type, message |-> message, code |-> code, body |-> body]
NoResult == Result("", "", 0, "")
NoOperation == <<<<>>, "">>
NoOutcome == [net |-> "none", status |-> 0, json |-> FALSE]
Steps(op, scheme, req, met, shaped) ==
    [op |-> op, scheme |-> scheme, req |-> req, met |-> met, shaped |-> shaped]
Returned(ret, stage, result, steps) ==
    [ret |-> ret, stage |-> stage, result |-> result, steps |-> steps]

\* HandleRequest has not been called
NotInvoked ==
    Returned("none", "", NoResult, Steps(NoOperation, "", NoRequest, NoOutcome, FALSE))

\* ResponseTransformer.TransformResponse in direct mode: the parsed body, or an
\* error for a body that is not JSON
TransformResponse(outcome) ==
    IF outcome.json THEN [err |-> "", data |-> RawBody(outcome)]
    ELSE [err |-> "shape", data |-> ""]

\* a status check that takes a redirect for a success
StatusPolicyMutant(outcome) ==
    IF outcome.status < 200 \/ outcome.status >= 400
    THEN [ret |-> "result", stage |-> "", shaped |-> FALSE,
          result |-> Result("error",
                            IF outcome.status >= 400 /\ outcome.status < 500
                            THEN "client error"
                            ELSE IF outcome.status >= 500 THEN "server error"
                            ELSE "status",
                            outcome.status, RawBody(outcome))]
    ELSE IF TransformResponse(outcome).err # ""
    THEN [ret |-> "error", stage |-> "shape", shaped |-> TRUE, result |-> NoResult]
    ELSE [ret |-> "result", stage |-> "", shaped |-> TRUE,
          result |-> Result("success", "", 0, TransformResponse(outcome).data)]

\* the status check of HandleRequest and, for 2xx, the call of the response
\* transformer
StatusPolicy(outcome) ==
    IF outcome.status < 200 \/ outcome.status >= 300
    THEN [ret |-> "result", stage |-> "", shaped |-> FALSE,
          result |-> Result("error",
                            IF outcome.status >= 400 /\ outcome.status < 500
                            THEN "client error"
                            ELSE IF outcome.status >= 500 THEN "server error"
                            ELSE "status",
                            outcome.status, RawBody(outcome))]
    ELSE IF TransformResponse(outcome).err # ""
    THEN [ret |-> "error", stage |-> "shape", shaped |-> TRUE, result |-> NoResult]
    ELSE [ret |-> "result", stage |-> "", shaped |-> TRUE,
          result |-> Result("success", "", 0, TransformResponse(outcome).data)]

\* a HandleRequest that sets the default headers and sends before it applies
\* authentication
HandleRequestMutant ==
    /\ invoked = NotInvoked
    /\ \E op \in GetOperationByID(openAPISpec, toolCall.name) :
         LET b == buildHTTPRequest(openAPISpec, ToUpper(op[2]), op[1], toolCall.params)
         IN  /\ b.err = ""
             /\ outbound' = Append(outbound, WithDefaults(b.req, defaultHeaders))
             /\ invoked' = Returned("error", "auth", NoResult,
                                    Steps(op, "", b.req, NoOutcome, FALSE))
    /\ UNCHANGED <<openAPISpec, defaultHeaders, environ, toolCall, tools>>
    /\ UNCHANGED <<engineVars, stdioVars, sseVars>>

\* RequestHandler.HandleRequest
HandleRequest ==
    /\ invoked = NotInvoked
    /\ \/ /\ GetOperationByID(openAPISpec, toolCall.name) = {}
          /\ invoked' = Returned("error", "resolve", NoResult,
                                 Steps(NoOperation, "", NoRequest, NoOutcome, FALSE))
          /\ UNCHANGED outbound
       \/ \E op \in GetOperationByID(openAPISpec, toolCall.name),
             schemeName \in FirstSchemes(openAPISpec), outcome \in Outcomes :
            LET b == buildHTTPRequest(openAPISpec, ToUpper(op[2]), op[1],
                                      toolCall.params)
                a == applyAuthentication(openAPISpec, b.req, environ, schemeName)
                req == WithDefaults(a.req, defaultHeaders)
                p == StatusPolicy(outcome)
            IN  IF b.err # ""
                THEN /\ invoked' = Returned("error", "build", NoResult,
                                        Steps(op, "", NoRequest, NoOutcome, FALSE))
                     /\ UNCHANGED outbound
                ELSE IF a.err # ""
                THEN /\ invoked' = Returned("error", "auth", NoResult,
                                        Steps(op, schemeName, b.req, NoOutcome, FALSE))
                     /\ UNCHANGED outbound
                ELSE /\ outbound' = Append(outbound, req)
                     /\ invoked' =
                          IF outcome.net = "fail"
                          THEN Returned("error", "send", NoResult,
                                        Steps(op, schemeName, req, outcome, FALSE))
                          ELSE IF outcome.net = "readFail"
                          THEN Returned("error", "read", NoResult,
                                        Steps(op, schemeName, req, outcome, FALSE))
                          ELSE Returned(p.ret, p.stage, p.result,
                                        Steps(op, schemeName, req, outcome, p.shaped))
    /\ UNCHANGED <<openAPISpec, defaultHeaders, environ, toolCall, tools>>
    /\ UNCHANGED <<engineVars, stdioVars, sseVars>>

InvokePaths ==
    {{<<<<"users">>, "get">>}, {<<<<"users", Placeholder("id")>>, "get">>},
     {<<<<"users", Placeholder("id")>>, "post">>}}

InitInvoke ==
    /\ openAPISpec \in [Paths : InvokePaths, baseURL : {"", "https://x"},
                        parameters : ParamDecls, hasBody : BOOLEAN,
                        security : Securities]
    /\ defaultHeaders \in DefaultHeaderSets
    /\ environ \in Environs
    /\ toolCall \in [name : {"getUsers", "postUsers", "nope"}, params : Supplied]
    /\ outbound = <<>> /\ invoked = NotInvoked /\ tools = <<>>
    /\ request = NoEnvelope /\ response = NoResponse /\ engineCalls = 0
    /\ initSeen = FALSE
    /\ StdioIdle /\ SSEIdle

SpecInvoke == InitInvoke /\ [][HandleRequest]_vars

(***************************************************************************)
(* Properties of the tool invoker.                                         *)
(***************************************************************************)

\* HandleRequest has returned
HasReturned == invoked # NotInvoked

\* the tool outcome handleToolCall sees, and its answer to a tools/call
ToolOutcomeOf(inv) ==
    IF inv.ret = "error" THEN "err"
    ELSE IF inv.result.Type = "error" THEN "errorResult" ELSE "success"
ToolCallAnswer ==
    handleToolCall([Req(IdStr("1"), "tools/call") EXCEPT !.tool = ToolOutcomeOf(invoked)])

\* C21: when the tool name resolves to no operation, when building the
\* request fails (among others for an empty base URL), or when applying
\* authentication fails, no outbound call has been made.
C21_NoCallOnEarlyFailure ==
    HasReturned =>
        /\ GetOperationByID(openAPISpec, toolCall.name) = {}
           => (invoked.stage = "resolve" /\ outbound = <<>>)
        /\ (GetOperationByID(openAPISpec, toolCall.name) # {} /\ openAPISpec.baseURL = "")
           => (invoked.stage = "build" /\ outbound = <<>>)
        /\ invoked.stage \in {"resolve", "build", "auth"} => outbound = <<>>

C21_Witness ==
    /\ HasReturned /\ invoked.stage = "auth"
    /\ invoked.steps.req # NoRequest
    /\ outbound = <<>>

\* C22: a tools/call whose invocation fails (unknown tool, binding error,
\* authentication error, network failure) is answered with a JSON-RPC result
\* whose isError is true, never with a JSON-RPC error.
C22_FailureIsToolResult ==
    (HasReturned /\ invoked.stage \in {"resolve", "build", "auth", "send"})
        => (ToolCallAnswer.kind = "result" /\ ToolCallAnswer.body = "isError:true")

\* the operation the call resolved to declares a required path parameter that
\* the call does not supply
RequiredPathParamAbsent ==
    /\ GetOperationByID(openAPISpec, toolCall.name) # {}
    /\ \E i \in DOMAIN openAPISpec.parameters :
         /\ openAPISpec.parameters[i].In = "path"
         /\ openAPISpec.parameters[i].Required
         /\ openAPISpec.parameters[i].Name \notin toolCall.params

\* C23: when a required path parameter the operation declares is absent from
\* the arguments, the build fails, no request is produced and none is sent.
C23_MissingPathParamFailsBuild ==
    (HasReturned /\ RequiredPathParamAbsent)
        => /\ invoked.ret = "error" /\ invoked.stage = "build"
           /\ invoked.steps.req = NoRequest
           /\ outbound = <<>>

C23_Witness ==
    /\ HasReturned /\ RequiredPathParamAbsent
    /\ openAPISpec.baseURL # ""
    /\ invoked.steps.op[1] = <<"users", Placeholder("id")>>
    /\ invoked.stage = "build"

\* C24: a header parameter that is supplied is carried by the request sent as
\* a header of that name, and a required header parameter that is not
\* supplied fails the build.
C24_HeaderParamsBound ==
    (HasReturned /\ GetOperationByID(openAPISpec, toolCall.name) # {})
        => \A i \in DOMAIN openAPISpec.parameters :
             LET q == openAPISpec.parameters[i]
             IN  q.In = "header" =>
                   /\ (q.Required /\ q.Name \notin toolCall.params)
                      => (invoked.stage = "build" /\ outbound = <<>>)
                   /\ q.Name \in toolCall.params
                      => \A k \in DOMAIN outbound :
                           /\ q.Name \in DOMAIN outbound[k].header
                           /\ outbound[k].header[q.Name] = "value"

\* the request carries a credential
HasCredential(req) ==
    \E n \in DOMAIN req.header :
        /\ n \in {"Authorization", "X-API-Key"}
        /\ req.header[n] \in {"Bearer BEARER_TOKEN", "Bearer OAUTH_TOKEN",
                              "APIKEYAUTH_API_KEY"}

\* C25: a request of an operation that declares a security requirement is
\* sent only with the credential header of the scheme applied set, and a
\* scheme of an unsupported type (an unknown type, or http with a scheme other
\* than bearer and basic) fails authentication with nothing sent.
C25_SecuredCallCarriesCredential ==
    (HasReturned /\ openAPISpec.security # <<>> /\ openAPISpec.security[1] # {})
        => /\ invoked.steps.scheme \in {"ApiKeyAuth", "Bearer", "OAuth", "Basic"}
              => \A k \in DOMAIN outbound :
                   (IF invoked.steps.scheme = "ApiKeyAuth"
                    THEN "X-API-Key" ELSE "Authorization") \in DOMAIN outbound[k].header
           /\ invoked.steps.scheme \in {"Digest", "Oidc"}
              => (invoked.stage = "auth" /\ outbound = <<>>)

\* the scheme applied is of type apiKey, http bearer or oauth2 and the
\* environment variable derived from its name is unset or empty
CredentialUnset ==
    \/ invoked.steps.scheme = "ApiKeyAuth" /\ "APIKEYAUTH_API_KEY" \notin environ
    \/ invoked.steps.scheme = "Bearer" /\ "BEARER_TOKEN" \notin environ
    \/ invoked.steps.scheme = "OAuth" /\ "OAUTH_TOKEN" \notin environ

\* C26: when the environment variable of the scheme applied is unset or
\* empty, authentication fails, the credential header is not set and no
\* outbound call is made.
C26_UnsetCredentialFailsAuth ==
    (HasReturned /\ CredentialUnset)
        => /\ invoked.ret = "error" /\ invoked.stage = "auth"
           /\ ~HasCredential(invoked.steps.req)
           /\ "Authorization" \notin DOMAIN invoked.steps.req.header
           /\ "X-API-Key" \notin DOMAIN invoked.steps.req.header
           /\ outbound = <<>>

C26_Witness ==
    /\ HasReturned /\ CredentialUnset
    /\ invoked.steps.scheme = "Bearer"
    /\ environ = {"APIKEYAUTH_API_KEY"}
    /\ invoked.stage = "auth"

\* C27: a default header never replaces the credential: a request sent for an
\* operation whose bearer credential is available carries that credential.
C27_DefaultsNeverReplaceCredential ==
    \A k \in DOMAIN outbound :
        (invoked.steps.scheme = "Bearer" /\ "BEARER_TOKEN" \in environ)
            => outbound[k].header["Authorization"] = "Bearer BEARER_TOKEN"

\* the outbound call got a response whose body was read
GotResponse == HasReturned /\ invoked.steps.met.net = "ok"

StdioRunners == BagToSet(workers) \cup {reader}

ExpectedID(op) ==
    CASE op = <<<<"users">>, "get">> -> "getUsers"
      [] op = <<<<"users">>, "post">> -> "postUsers"
      [] op = <<<<"users", "{id}">>, "get">> -> "getUsers"
      [] op = <<<<"users", "{id}">>, "post">> -> "postUsers"
      [] op = <<<<"users", "{id}", "orders">>, "get">> -> "getUsersOrders"
      [] op = <<<<"users", "{id}", "orders">>, "post">> -> "postUsersOrders"
      [] op = <<<<"orders">>, "get">> -> "getOrders"
      [] op = <<<<"orders">>, "post">> -> "postOrders"
      [] OTHER -> "?"

\* C31: the generated identifier is the lower-cased verb followed by the
\* title-cased non-empty segments in order, placeholders dropped: every
\* listed tool carries that identifier, and GET /users/{id}, POST /users and
\* GET /users/{id}/orders give getUsers, postUsers and getUsersOrders.
C31_GeneratedIdentifier ==
    /\ \A i \in DOMAIN tools : tools[i].name = ExpectedID(tools[i].op)
    /\ generateOperationID("GET", <<"users", "{id}">>) = "getUsers"
    /\ generateOperationID("POST", <<"users">>) = "postUsers"
    /\ generateOperationID("GET", <<"users", "{id}", "orders">>) = "getUsersOrders"
    /\ generateOperationID("GET", <<"", "users", "">>) = "getUsers"

C31_Witness ==
    \E i \in DOMAIN tools :
        /\ tools[i].op = <<<<"users", "{id}", "orders">>, "get">>
        /\ tools[i].name = "getUsersOrders"

(***************************************************************************)
(* Cleanup of a connection as other tasks see it.                          *)
(***************************************************************************)

\* p's step is a lookup in the session table that finds the session: the
\* validation of handleMCPMessages or the first lookup of pushMessageToSession
FindsSession(p) ==
    \/ posts[p].pc = "none" /\ posts'[p].pc = "handle"
    \/ posts[p].pc = "pushSession" /\ posts'[p].pc = "pushConn"

\* C32: cleanup deletes the connection and its session atomically for every
\* other task: no POST handler or pusher finds a session registered whose
\* connection is already deleted.
C32_CleanupAtomic ==
    [][\A p \in PostIds :
          FindsSession(p) => sessions[posts'[p].sid].ClientID \in sseConnections]_vars

(***************************************************************************)
(* The body of the request.                                                *)
(***************************************************************************)

\* the names of the body parameters the document declares
BodyParamNames ==
    {openAPISpec.parameters[i].Name :
        i \in {j \in DOMAIN openAPISpec.parameters : openAPISpec.parameters[j].In = "body"}}

\* C33: the body of a POST, PUT or PATCH request is the object of the supplied
\* body parameters, or the whole parameter mapping when the operation declares
\* no body parameter and the call supplies a parameter; a GET or DELETE
\* request has no body.
C33_RequestBody ==
    \A k \in DOMAIN outbound :
        IF outbound[k].method \in {"POST", "PUT", "PATCH"}
        THEN outbound[k].body = (IF BodyParamNames = {} /\ toolCall.params # {}
                                 THEN toolCall.params
                                 ELSE BodyParamNames \cap toolCall.params)
        ELSE outbound[k].body = {}

(***************************************************************************)
(* The completion channel.                                                 *)
(***************************************************************************)

\* the goroutines that have passed the select on s.done by its default case
\* and are about to call close(s.done)
Closers ==
    (IF serve = "close" THEN 1 ELSE 0)
    + CopiesIn("exitClose", stoppers) + CopiesIn("stopClose", stoppers)
    + CopiesIn("swcClose", stoppers)

\* C34: the completion channel is closed at most once: no goroutine is about
\* to close it when it is closed or when another is about to, and no close
\* has panicked.
C34_DoneClosedAtMostOnce ==
    /\ proc # "panicked"
    /\ Closers + (IF doneClosed THEN 1 ELSE 0) <= 1

(***************************************************************************)
(* Writes to one stream.                                                   *)
(***************************************************************************)

\* the tasks inside a Write to c's ResponseWriter
Writers(c) ==
    (IF conns[c].pc = "beating" THEN 1 ELSE 0)
    + Cardinality({q \in PostIds : posts[q].pc = "writing" /\ posts[q].target = c})

\* C35: writes to one stream are mutually exclusive: at no time are two tasks
\* writing to the same connection, and every event on a stream is intact.
C35_StreamWritesExclusive ==
    /\ \A c \in ConnIds : Writers(c) <= 1
    /\ \A c \in ConnIds : \A i \in 1..Len(streams[c]) : streams[c][i].intact

(***************************************************************************)
(* Writes after removal.                                                   *)
(***************************************************************************)

\* p starts or finishes the Write of its message event in this step
WritesEvent(p) ==
    \/ posts[p].pc = "write" /\ posts'[p].pc = "writing"
    \/ posts[p].pc = "writing" /\ posts'[p].pc = "done"

\* C36: no event is written to a connection after the connection has been
\* removed from the table and its handler has returned.
C36_NoWriteAfterRemoval ==
    [][\A p \in PostIds :
          WritesEvent(p) => ~ /\ posts[p].target \notin sseConnections
                              /\ conns[posts[p].target].pc = "returned"]_vars

(***************************************************************************)
(* The stdio transport under load: a client that sends tool calls one      *)
(* after the other, each when the one before has been answered, to a       *)
(* backend that never answers within the timeout.                          *)
(***************************************************************************)

InitLoad ==
    /\ ctxDone = FALSE /\ doneClosed = FALSE /\ chanClosed = FALSE
    /\ requestChan = <<>>
    /\ reader = Runner("check", 0, NoEnvelope, NoResponse)
    /\ workers = [w \in {IdleWorker} |-> workerCount]
    /\ lateEngines = {}
    /\ serve = "waitCtx"
    /\ stoppers = EmptyBag
    /\ stdout = <<>> /\ stdoutOpen = TRUE
    /\ readLog = <<>> /\ eofRead = FALSE
    /\ proc = "running"
    /\ stdinLen = MaxLoad
    /\ request = NoEnvelope /\ response = NoResponse /\ engineCalls = 0
    /\ initSeen = FALSE
    /\ SSEIdle /\ InvokeIdle

\* the reader reads the next line: a tools/call, sent when every line before
\* it has been answered
ReadToolCall ==
    /\ \A n \in Lines : Answered(n)
    /\ ReaderReadLine
    /\ \A n \in 1..Len(readLog') : ToolInvoked(readLog'[n].env)

\* a step of a worker in processRequest, the result never being there before
\* the timeout
SlowWorkerProcess ==
    /\ WorkerProcess
    /\ \A r \in BagToSet(workers') : r.pc # "write1"

NextLoad ==
    \/ ReaderCheck \/ ReadToolCall \/ ReaderSelect
    \/ WorkerSelect \/ SlowWorkerProcess \/ LateEngineFinish

SpecLoad == InitLoad /\ [][NextLoad]_vars

\* the invocations of the protocol engine in progress: the goroutines that
\* processRequest started and that have not sent their result, whether
\* processRequest still waits for it or has timed out
InProgress ==
    Cardinality({r \in StdioRunners : r.pc = "wait"}) + Cardinality(lateEngines)

\* C37: at most workerCount + 1 invocations of the engine are in progress at
\* any time.
C37_BoundedInvocations == InProgress <= workerCount + 1

(***************************************************************************)
(* From tools/list to tools/call.                                          *)
(***************************************************************************)

\* handleToolCall: strings.TrimPrefix(toolParams.Name, "mcp_"), on the names
\* in use
TrimMcpPrefix(name) ==
    CASE name = "mcp_getUsers" -> "getUsers"
      [] name = "mcp_postUsers" -> "postUsers"
      [] OTHER -> name

\* C38: every name that tools/list returns, used as the name of a
\* tools/call, resolves to the operation its descriptor was generated from
\* and to no other.
C38_ListedNameResolves ==
    \A i \in DOMAIN tools :
        GetOperationByID(openAPISpec, TrimMcpPrefix(tools[i].name)) = {tools[i].op}

\* the steps at which a POST handler takes a table lock: the activity stamp
\* and the push's two lookups
PostLockSteps == {"handle", "pushSession", "pushConn"}

C40_StopRaisesDone ==
    (sseExit = "shutdown") ~> (doneClosed \/ sseExit = "killed")

====
